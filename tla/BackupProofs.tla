---------------------------- MODULE BackupProofs ----------------------------
(***************************************************************************)
(* Proofs about hosted backup.                                             *)
(*                                                                         *)
(* The session comes first, for every number of processes, accounts,       *)
(* commands, retries, expiries and faults.  A lemma per action says what   *)
(* it does to the process that takes it and to the service; then one       *)
(* section per part of the inductive invariant shows that every action     *)
(* keeps it.  Typed, TokensOwned and ProcessesKnown are mutually           *)
(* inductive; LeavingIsClosed explains every token and account that the    *)
(* service drops; NewTokenIsGood says that a token nobody stored yet is    *)
(* private and good, from which StoredTokenIsLive follows; KeysKept gives  *)
(* SignedInHasKeys; LockIsHeld, StoredTokenIsLive and KeysKept give        *)
(* TokenIsUsable, and that NoSpuriousSignOut.                              *)
(*                                                                         *)
(* Then the transfers.  The pool, for any number of workers, items and     *)
(* retries: its types, that the error it returns is a cause and not a      *)
(* consequence, and that returning no error means every item was           *)
(* transferred.  Last push and pull, which drive the pool as the pool      *)
(* allows: a push that reports success has stored its whole version, one   *)
(* that is skipped names a version whose manifest is stored, and a pull    *)
(* touches the target directory only after every chunk has been verified.  *)
(***************************************************************************)
EXTENDS BackupSession, BackupPush, BackupPull, TLAPS

-----------------------------------------------------------------------------
(* What each step does to the process that takes it *)

Others(p) ==
  /\ proc' = [proc EXCEPT ![p] = proc'[p]]
  /\ \A q \in Procs : q # p => proc'[q] = proc[q]

\* The account and the tokens of a process stay as they were.
Keeps(r, s) == s.cmd = r.cmd /\ s.uid = r.uid /\ s.rt = r.rt /\ s.at = r.at

\* The command of p has returned.
Ended(p, how) ==
  /\ proc'[p] = Idle /\ told' = [told EXCEPT ![p] = <<proc[p].cmd, how, proc[p].uid>>]
  /\ lock' = IF lock = p THEN None ELSE lock

\* Process p goes on to forget its account.
Leaves(p) ==
  /\ proc'[p] \in Process /\ Keeps(proc[p], proc'[p])
  /\ proc'[p].pc = "forget" /\ proc'[p].step = IF proc[p].uid = NoId THEN 5 ELSE 1
  /\ UNCHANGED told

\* A process without a command has no account and no token.
LEMMA IdleFields ==
  /\ Idle \in Process /\ Idle.pc = "idle" /\ Idle.cmd = "none" /\ Idle.uid = NoId
  /\ Idle.rt = NoId /\ Idle.at = NoId /\ Idle.sent = NoId /\ Idle.step = 0
  /\ Idle.got = 0 /\ ~Idle.refreshed /\ Idle.tries = 0
BY DEF Idle, Process, Commands, Requests, NoId

\* Setting one process leaves the others alone.
LEMMA SetOne ==
  ASSUME Typed, NEW p \in Procs, NEW r, Set(p, r)
  PROVE  proc'[p] = r /\ Others(p) /\ proc' = [proc EXCEPT ![p] = r]
BY DEF Typed, Set, Others

\* Typed gives each process its fields.
LEMMA ProcessTyped ==
  ASSUME Typed, NEW p \in Procs
  PROVE  proc[p] \in Process
BY DEF Typed

\* Accounts are numbered from one, and there is room for each in the keychain.
LEMMA AccountsAreIds ==
  ASSUME Typed
  PROVE  /\ DOMAIN accounts = 1..Len(accounts) /\ Len(accounts) \in Nat
         /\ DOMAIN accounts \subseteq Ids /\ NoId \notin DOMAIN accounts
         /\ DOMAIN owner = 1..Len(owner) /\ Len(owner) \in Nat /\ Fresh \in Nat
         /\ Fresh \notin DOMAIN owner /\ NoId \notin DOMAIN owner
<1>1. accounts \in Seq(Account) /\ owner \in Seq(Nat) /\ Len(accounts) <= MaxAccounts
  BY DEF Typed
<1>2. DOMAIN accounts = 1..Len(accounts) /\ Len(accounts) \in Nat
  BY <1>1
<1>3. DOMAIN owner = 1..Len(owner) /\ Len(owner) \in Nat
  BY <1>1
<1>4. DOMAIN accounts \subseteq Ids
  BY <1>1, <1>2, SessionBounds DEF Ids
<1> QED
  BY <1>2, <1>3, <1>4 DEF NoId, Fresh

\* End, as the proofs use it.
LEMMA EndIs ==
  ASSUME Typed, NEW p \in Procs, NEW how, End(p, how)
  PROVE  Ended(p, how) /\ Others(p)
BY SetOne DEF End, Ended, Unlock

\* What a process holds when its request is made.
LEMMA AskFields ==
  ASSUME NEW r \in Process, NEW q \in Requests
  PROVE  /\ Ask(r, q) \in Process /\ Keeps(r, Ask(r, q)) /\ Ask(r, q).pc = "send"
         /\ Ask(r, q).req = q /\ Ask(r, q).sent = r.rt /\ Ask(r, q).got = r.got
         /\ ~Ask(r, q).refreshed /\ Ask(r, q).tries = 0
BY DEF Ask, Process, Keeps, Requests

\* What a process holds when it starts to forget.
LEMMA ForgettingFields ==
  ASSUME NEW r \in Process
  PROVE  /\ Forgetting(r) \in Process /\ Keeps(r, Forgetting(r)) /\ Forgetting(r).pc = "forget"
         /\ Forgetting(r).step = IF r.uid = NoId THEN 5 ELSE 1
BY DEF Forgetting, Process, Keeps

\* What a process holds after it read an account from the keychain.
LEMMA HydratedFields ==
  ASSUME Typed, NEW r \in Process, NEW a \in Ids
  PROVE  /\ Hydrated(r, a) \in Process /\ Hydrated(r, a).uid = a /\ Hydrated(r, a).rt = kc.rt[a]
         /\ Hydrated(r, a).at \in {NoId, kc.at[a]} /\ Hydrated(r, a).pc = r.pc
         /\ Hydrated(r, a).cmd = r.cmd /\ Hydrated(r, a).req = r.req /\ Hydrated(r, a).got = r.got
         /\ Hydrated(r, a).sent = r.sent /\ Hydrated(r, a).refreshed = r.refreshed
         /\ Hydrated(r, a).tries = r.tries
<1>1. kc.rt[a] \in Nat /\ kc.at[a] \in Nat /\ CachedAccess(a) \in {NoId, kc.at[a]} /\ NoId \in Nat
  BY SessionBounds DEF Typed, CachedAccess, NoId, Ids, Keychain
<1>2. CachedAccess(a) \in Nat /\ a \in Nat
  BY <1>1 DEF Ids
<1> QED
  BY <1>1, <1>2 DEF Hydrated, Process

\* A call that failed ends the command; logout goes on.
Failed(p, how) ==
  /\ lock' = IF lock = p THEN None ELSE lock
  /\ \/ proc[p].cmd # "logout" /\ Ended(p, how)
     \/ proc[p].cmd = "logout" /\ Leaves(p)

\* A failing command ends with its error and leaves the other processes
\* alone.
LEMMA FailIs ==
  ASSUME Typed, NEW p \in Procs, NEW how, Fail(p, how)
  PROVE  Failed(p, how) /\ Others(p)
<1>1. proc[p] \in Process
  BY ProcessTyped
<1>2. CASE proc[p].cmd = "logout"
  <2>1. Set(p, Forgetting(proc[p])) /\ Unlock(p) /\ UNCHANGED told
    BY <1>2 DEF Fail
  <2>2. proc'[p] = Forgetting(proc[p]) /\ Others(p)
    BY <2>1, SetOne
  <2> QED
    BY <1>1, <1>2, <2>1, <2>2, ForgettingFields DEF Failed, Leaves, Unlock
<1>3. CASE proc[p].cmd # "logout"
  BY <1>3, EndIs DEF Fail, Failed, Ended
<1> QED
  BY <1>2, <1>3

\* Nothing but the processes, the lock, the counters and the report changes.
Calm == UNCHANGED <<server, kc, stale, early, burnt, sealed>>

\* A command starts with the session of the current account, or with none.
LEMMA StartEffect ==
  ASSUME Typed, NEW p \in Procs, NEW x \in Plans, Start(p, x)
  PROVE  /\ Others(p) /\ Calm /\ UNCHANGED <<lock, told, closed, salts>>
         /\ faults' \in {faults, faults + 1} /\ proc[p].pc = "idle"
         /\ proc'[p] \in Process /\ proc'[p].pc = "begin"
         /\ \/ proc'[p].uid = NoId /\ proc'[p].rt = NoId /\ proc'[p].at = NoId
            \/ /\ kc.cur # NoId /\ proc'[p].uid = kc.cur /\ proc'[p].rt = kc.rt[kc.cur]
               /\ kc.rt[kc.cur] # NoId /\ proc'[p].at \in {NoId, kc.at[kc.cur]}
<1> DEFINE r == [Idle EXCEPT !.pc = "begin", !.cmd = x.cmd, !.email = x.email, !.pass = x.pass]
<1>1. r \in Process /\ r.pc = "begin" /\ r.uid = NoId /\ r.rt = NoId /\ r.at = NoId
  BY SessionBounds, IdleFields DEF Process, Idle
<1> HIDE DEF r
<1>2. kc.cur # NoId => kc.cur \in Ids
  BY SessionBounds DEF Typed, Ids
<1>3. /\ HydrateFromCurrent(r) \in Process /\ HydrateFromCurrent(r).pc = "begin"
      /\ \/ HydrateFromCurrent(r) = r
         \/ /\ kc.cur # NoId /\ HydrateFromCurrent(r).uid = kc.cur
            /\ HydrateFromCurrent(r).rt = kc.rt[kc.cur]
            /\ kc.rt[kc.cur] # NoId /\ HydrateFromCurrent(r).at \in {NoId, kc.at[kc.cur]}
  BY <1>1, <1>2, HydratedFields DEF HydrateFromCurrent
<1>4. Set(p, HydrateFromCurrent(r)) \/ Set(p, r)
  BY DEF Start, r
<1>5. /\ Others(p) /\ proc'[p] \in Process /\ proc'[p].pc = "begin"
      /\ \/ proc'[p].uid = NoId /\ proc'[p].rt = NoId /\ proc'[p].at = NoId
         \/ /\ kc.cur # NoId /\ proc'[p].uid = kc.cur /\ proc'[p].rt = kc.rt[kc.cur]
            /\ kc.rt[kc.cur] # NoId /\ proc'[p].at \in {NoId, kc.at[kc.cur]}
  BY <1>1, <1>3, <1>4, SetOne
<1>6. Calm /\ UNCHANGED <<lock, told, closed, salts>>
  BY DEF Start, Calm, clock, ghosts
<1>7. faults' \in {faults, faults + 1} /\ proc[p].pc = "idle"
  BY DEF Start, Fine, Fault
<1> QED
  BY <1>5, <1>6, <1>7

\* The request p makes is the one its command makes first.
Asks(p, q) ==
  /\ proc'[p] \in Process /\ Keeps(proc[p], proc'[p])
  /\ proc'[p].pc = "send" /\ proc'[p].req = q /\ proc'[p].sent = proc[p].rt
  /\ ~proc'[p].refreshed

\* The handlers up to their first request.
LEMMA StatusEffect ==
  ASSUME Typed, NEW p \in Procs, BeginStatus(p)
  PROVE  /\ Others(p) /\ Calm /\ UNCHANGED <<closed, salts, faults>>
         /\ proc[p].pc = "begin" /\ proc[p].cmd = "status"
         /\ \/ Ended(p, "signed_out")
            \/ Asks(p, "me") /\ proc[p].rt # NoId /\ UNCHANGED <<lock, told>>
<1>1. proc[p] \in Process
  BY ProcessTyped
<1>2. CASE End(p, "signed_out")
  BY <1>2, EndIs DEF BeginStatus, Calm, counters, clock, Fine
<1>3. CASE proc[p].rt # NoId /\ Set(p, Ask(proc[p], "me")) /\ UNCHANGED <<lock, told>>
  BY <1>1, <1>3, SetOne, AskFields DEF BeginStatus, Calm, counters, clock, Fine, Asks,
     Requests, Keeps
<1> QED
  BY <1>2, <1>3 DEF BeginStatus

\* A push asks the server only with the data key it read from the keychain.
LEMMA PushEffect ==
  ASSUME Typed, NEW p \in Procs, BeginPush(p)
  PROVE  /\ Others(p) /\ Calm /\ UNCHANGED <<closed, salts, faults>>
         /\ proc[p].pc = "begin" /\ proc[p].cmd = "push"
         /\ \/ Ended(p, "no_keys")
            \/ /\ Asks(p, "post") /\ UNCHANGED <<lock, told>> /\ proc[p].uid \in Ids
               /\ proc'[p].got = kc.dek[proc[p].uid] /\ kc.dek[proc[p].uid] # NoId
<1>1. proc[p] \in Process /\ proc[p].uid \in {NoId} \cup Ids
  BY ProcessTyped, AccountsAreIds DEF Typed
<1>2. CASE End(p, "no_keys")
  BY <1>2, EndIs DEF BeginPush, Calm, counters, clock, Fine
<1>3. CASE /\ proc[p].uid # NoId /\ kc.dek[proc[p].uid] # NoId /\ UNCHANGED <<lock, told>>
           /\ Set(p, Ask([proc[p] EXCEPT !.got = kc.dek[proc[p].uid]], "post"))
  <2> DEFINE r == [proc[p] EXCEPT !.got = kc.dek[proc[p].uid]]
  <2>1. kc.dek[proc[p].uid] \in Nat
    BY <1>1, <1>3 DEF Typed, Keychain
  <2>2. r \in Process /\ Keeps(proc[p], r) /\ r.got = kc.dek[proc[p].uid]
    BY <1>1, <2>1 DEF Process, Keeps
  <2> HIDE DEF r
  <2>3. proc'[p] = Ask(r, "post") /\ Others(p)
    BY <1>3, SetOne DEF r
  <2>4. Asks(p, "post") /\ proc'[p].got = kc.dek[proc[p].uid]
    BY <2>2, <2>3, AskFields DEF Asks, Keeps, Requests
  <2> QED
    BY <1>1, <1>3, <2>3, <2>4 DEF BeginPush, Calm, counters, clock, Fine
<1> QED
  BY <1>2, <1>3 DEF BeginPush

\* A login or a recovery starts with the question for the salt.
LEMMA LoginEffect ==
  ASSUME Typed, NEW p \in Procs, BeginLogin(p)
  PROVE  /\ Others(p) /\ Calm /\ UNCHANGED <<closed, salts, faults, lock, told>>
         /\ proc[p].pc = "begin" /\ proc[p].cmd \in {"login", "recover"} /\ Asks(p, "pre")
<1>1. proc[p] \in Process
  BY ProcessTyped
<1>2. proc'[p] = Ask(proc[p], "pre") /\ Others(p)
  BY SetOne DEF BeginLogin
<1> QED
  BY <1>1, <1>2, AskFields DEF BeginLogin, Calm, counters, clock, ghosts, Fine, Asks,
     Requests, Keeps

\* A sign-up starts with the account, or ends for want of a recovery file.
LEMMA SignupEffect ==
  ASSUME Typed, NEW p \in Procs, BeginSignup(p)
  PROVE  /\ Others(p) /\ Calm /\ UNCHANGED closed /\ salts' \in Nat
         /\ proc[p].pc = "begin" /\ proc[p].cmd = "signup"
         /\ \/ Ended(p, "no_recovery_file") /\ faults' = faults + 1
            \/ Asks(p, "signup") /\ UNCHANGED <<lock, told, faults>>
<1>1. proc[p] \in Process /\ salts \in Nat
  BY ProcessTyped DEF Typed
<1>2. CASE Fault /\ End(p, "no_recovery_file") /\ UNCHANGED salts
  BY <1>1, <1>2, EndIs DEF BeginSignup, Calm, clock, Fault
<1>3. CASE /\ Fine /\ salts' = salts + 1 /\ UNCHANGED <<lock, told>>
           /\ Set(p, Ask([proc[p] EXCEPT !.got = salts + 1], "signup"))
  <2> DEFINE r == [proc[p] EXCEPT !.got = salts + 1]
  <2>2. r \in Process /\ Keeps(proc[p], r)
    BY <1>1 DEF Process, Keeps
  <2> HIDE DEF r
  <2>3. proc'[p] = Ask(r, "signup") /\ Others(p)
    BY <1>3, SetOne DEF r
  <2>4. Asks(p, "signup")
    BY <2>2, <2>3, AskFields DEF Asks, Keeps, Requests
  <2> QED
    BY <1>1, <1>3, <2>3, <2>4 DEF BeginSignup, Calm, clock, Fine
<1> QED
  BY <1>2, <1>3 DEF BeginSignup

\* A logout or a deletion closes the account before it asks or forgets.
LEMMA LeaveEffect ==
  ASSUME Typed, NEW p \in Procs, BeginLeave(p)
  PROVE  /\ Others(p) /\ Calm /\ closed' = closed \cup {proc[p].uid}
         /\ UNCHANGED <<salts, faults, lock, told>>
         /\ proc[p].pc = "begin" /\ proc[p].cmd \in {"logout", "delete"}
         /\ Asks(p, proc[p].cmd) \/ Leaves(p)
<1>1. proc[p] \in Process
  BY ProcessTyped
<1>2. CASE Set(p, Ask(proc[p], proc[p].cmd))
  <2>1. proc[p].cmd \in Requests
    BY DEF BeginLeave, Requests
  <2>2. proc'[p] = Ask(proc[p], proc[p].cmd) /\ Others(p)
    BY <1>2, SetOne
  <2>3. Asks(p, proc[p].cmd)
    BY <1>1, <2>1, <2>2, AskFields DEF Asks, Keeps
  <2> QED
    BY <2>2, <2>3 DEF BeginLeave, Calm, counters, clock, Fine
<1>3. CASE Set(p, Forgetting(proc[p]))
  <2>1. Leaves(p) /\ Others(p)
    BY <1>1, <1>3, SetOne, ForgettingFields DEF Leaves, BeginLeave
  <2> QED
    BY <2>1 DEF BeginLeave, Calm, counters, clock, Fine
<1> QED
  BY <1>2, <1>3 DEF BeginLeave

-----------------------------------------------------------------------------
(* What the service does with a request *)

\* Tokens are only added; each keeps its owner.
ServerGrows ==
  /\ accounts' \in Seq(Account) /\ Len(accounts') <= MaxAccounts
  /\ owner' \in Seq(Nat) /\ DOMAIN accounts \subseteq DOMAIN accounts'
  /\ DOMAIN owner \subseteq DOMAIN owner' /\ \A n \in DOMAIN owner : owner'[n] = owner[n]
  /\ \A n \in DOMAIN owner' : owner'[n] \in DOMAIN accounts'
  /\ goodRT' \cup goodAT' \subseteq DOMAIN owner' /\ ticket' \subseteq DOMAIN accounts'
  /\ goodAT \subseteq goodAT'

\* A new token belongs to account a and is accepted.
Minted(a) ==
  /\ owner' = Append(owner, a) /\ Fresh \in DOMAIN owner' /\ owner'[Fresh] = a
  /\ Fresh \in goodRT' /\ Fresh \in goodAT'

\* Appending a token to the list of tokens.
LEMMA MintAppends ==
  ASSUME Typed, NEW a \in Nat, owner' = Append(owner, a), goodAT' = goodAT \cup {Fresh},
         Fresh \in goodRT'
  PROVE  /\ owner' \in Seq(Nat) /\ DOMAIN owner' = DOMAIN owner \cup {Fresh} /\ Minted(a)
         /\ \A n \in DOMAIN owner : owner'[n] = owner[n]
<1>1. owner \in Seq(Nat)
  BY DEF Typed
<1>3. owner' \in Seq(Nat) /\ Len(owner') = Len(owner) + 1
  BY <1>1
<1>4. DOMAIN owner' = 1..(Len(owner) + 1) /\ DOMAIN owner = 1..Len(owner) /\ Len(owner) \in Nat
  BY <1>1, <1>3
<1>5. owner'[Fresh] = a /\ \A n \in DOMAIN owner : owner'[n] = owner[n]
  BY <1>1, <1>4 DEF Fresh
<1> QED
  BY <1>3, <1>4, <1>5 DEF Minted, Fresh

\* Whom a request is about.
LEMMA SubjectIs ==
  ASSUME Typed, NEW p \in Procs, Sending(p), proc[p].pc = "send" => RequestFits(proc[p]),
         NEW a \in Subject(proc[p])
  PROVE  /\ Request(proc[p]) # "signup" => a \in DOMAIN accounts
         /\ Request(proc[p]) = "signup" => a = Len(accounts) + 1 /\ a <= MaxAccounts
         /\ Request(proc[p]) = "refresh" => proc[p].rt \in goodRT /\ a = owner[proc[p].rt]
         /\ Request(proc[p]) \in {"me", "post", "logout", "delete"} =>
              /\ proc[p].at \in goodAT /\ a = owner[proc[p].at] /\ accounts[a].live
<1>0. proc[p] \in Process /\ goodRT \subseteq DOMAIN owner /\ goodAT \subseteq DOMAIN owner
      /\ \A n \in DOMAIN owner : owner[n] \in DOMAIN accounts
  BY DEF Typed
<1>1. Request(proc[p]) \in (Requests \ {"none"}) \cup {"refresh"}
  BY <1>0 DEF Request, Process, Sending, RequestFits, Requests
<1>2. CASE Request(proc[p]) \in {"login", "recover", "finalize", "pre"}
  BY <1>2 DEF Subject, Live
<1>3. CASE Request(proc[p]) = "refresh"
  BY <1>0, <1>3 DEF Subject
<1>4. CASE Request(proc[p]) = "signup"
  BY <1>4, AccountsAreIds, SessionBounds DEF Subject
<1>5. CASE Request(proc[p]) \in {"me", "post", "logout", "delete"}
  <2>1. Subject(proc[p]) = IF Authorised(proc[p]) THEN {owner[Bearer(proc[p])]} ELSE {}
    BY <1>5 DEF Subject
  <2>2. Authorised(proc[p]) /\ a = owner[Bearer(proc[p])]
    BY <2>1
  <2>3. Bearer(proc[p]) \in goodAT /\ accounts[a].live
    BY <2>2 DEF Authorised
  <2>4. Bearer(proc[p]) = proc[p].at
    BY <2>3, <1>0, AccountsAreIds DEF Bearer
  <2> QED
    BY <1>0, <1>5, <2>2, <2>3, <2>4
<1> QED
  BY <1>1, <1>2, <1>3, <1>4, <1>5 DEF Requests

\* What a request that the service accepts changes there, by request.
LEMMA ServeIs ==
  ASSUME Typed, NEW p \in Procs, Sending(p), proc[p].pc = "send" => RequestFits(proc[p]),
         NEW a \in Subject(proc[p]), Serve(proc[p], a)
  PROVE  /\ ServerGrows /\ a \in DOMAIN accounts'
         /\ Request(proc[p]) \in {"signup", "login", "finalize", "refresh"} => Minted(a)
         /\ \A b \in DOMAIN accounts :
              accounts'[b].live \/ ~accounts[b].live \/ (Request(proc[p]) = "delete" /\ b = a)
         /\ \A b \in DOMAIN accounts' \ DOMAIN accounts : accounts'[b].live
         /\ \A n \in goodRT : \/ n \in goodRT'
                              \/ Request(proc[p]) = "refresh" /\ n = proc[p].rt
                              \/ Request(proc[p]) = "logout" /\ n = proc[p].sent
                              \/ Request(proc[p]) = "delete" /\ owner[n] = a
<1>0. /\ proc[p] \in Process /\ goodRT \subseteq DOMAIN owner /\ goodAT \subseteq DOMAIN owner
      /\ \A n \in DOMAIN owner : owner[n] \in DOMAIN accounts
      /\ ticket \subseteq DOMAIN accounts /\ Len(accounts) <= MaxAccounts
      /\ accounts \in Seq(Account) /\ owner \in Seq(Nat)
  BY DEF Typed
<1>1. /\ Request(proc[p]) # "signup" => a \in DOMAIN accounts
      /\ Request(proc[p]) = "signup" => a = Len(accounts) + 1 /\ a <= MaxAccounts
  BY SubjectIs
<1>2. a \in Nat
  BY <1>1, AccountsAreIds
<1>3. CASE Request(proc[p]) \in {"me", "post", "pre"} /\ UNCHANGED server
  BY <1>0, <1>1, <1>3 DEF server, ServerGrows
<1>4. CASE Request(proc[p]) = "login" /\ Mint(a, {}) /\ UNCHANGED <<accounts, ticket>>
  BY <1>0, <1>1, <1>2, <1>4, MintAppends DEF ServerGrows, Mint
<1>5. CASE Request(proc[p]) = "refresh" /\ Mint(a, {proc[p].rt}) /\ UNCHANGED <<accounts, ticket>>
  BY <1>0, <1>1, <1>2, <1>5, MintAppends DEF ServerGrows, Mint
<1>6. CASE /\ Request(proc[p]) = "recover" /\ ticket' = ticket \cup {a}
           /\ UNCHANGED <<accounts, owner, goodRT, goodAT>>
  BY <1>0, <1>1, <1>6 DEF ServerGrows
<1>7. CASE /\ Request(proc[p]) = "logout" /\ goodRT' = goodRT \ {proc[p].sent}
           /\ UNCHANGED <<accounts, owner, goodAT, ticket>>
  BY <1>0, <1>1, <1>7 DEF ServerGrows
<1>8. ASSUME NEW x \in Account, a \in DOMAIN accounts, accounts' = [accounts EXCEPT ![a] = x]
      PROVE  /\ accounts' \in Seq(Account) /\ Len(accounts') = Len(accounts)
             /\ DOMAIN accounts' = DOMAIN accounts /\ accounts'[a] = x
             /\ \A b \in DOMAIN accounts : b # a => accounts'[b] = accounts[b]
  <2>1. /\ [accounts EXCEPT ![a] = x] \in Seq(Account)
        /\ Len([accounts EXCEPT ![a] = x]) = Len(accounts)
        /\ DOMAIN [accounts EXCEPT ![a] = x] = DOMAIN accounts
        /\ [accounts EXCEPT ![a] = x][a] = x
        /\ \A b \in DOMAIN accounts : b # a => [accounts EXCEPT ![a] = x][b] = accounts[b]
    BY <1>0, <1>8
  <2> QED
    BY <1>8, <2>1, Zenon
<1>9. a \in DOMAIN accounts => accounts[a] \in Account
  BY <1>0
<1>10. CASE /\ Request(proc[p]) = "delete" /\ accounts' = [accounts EXCEPT ![a].live = FALSE]
            /\ goodRT' = {n \in goodRT : owner[n] # a} /\ UNCHANGED <<owner, goodAT, ticket>>
  <2>1. PICK x : x = [accounts[a] EXCEPT !.live = FALSE]
    OBVIOUS
  <2>2. x \in Account /\ accounts' = [accounts EXCEPT ![a] = x]
    BY <1>1, <1>9, <1>10, <2>1 DEF Account
  <2> QED
    BY <1>0, <1>1, <1>8, <1>10, <2>2 DEF ServerGrows
<1>11. DeriveKeys(proc[p].pass, proc[p].got) \in WrappedKey
  BY <1>0 DEF DeriveKeys, Process, WrappedKey
<1>12. CASE /\ Request(proc[p]) = "finalize" /\ ticket' = ticket \ {a} /\ Mint(a, {})
            /\ accounts' = [accounts EXCEPT ![a].salt = proc[p].got,
                                            ![a].password = DeriveKeys(proc[p].pass, proc[p].got),
                                            ![a].wrapped = DeriveKeys(proc[p].pass, proc[p].got)]
  <2> DEFINE key == DeriveKeys(proc[p].pass, proc[p].got)
  <2>1. PICK x : x = [accounts[a] EXCEPT !.salt = proc[p].got, !.password = key, !.wrapped = key]
    OBVIOUS
  <2>2. proc[p].got \in Nat
    BY <1>0 DEF Process
  <2>3. x \in Account /\ x.live = accounts[a].live
    BY <1>1, <1>9, <1>11, <1>12, <2>1, <2>2 DEF Account
  <2>4. accounts' = [accounts EXCEPT ![a] = x]
    BY <1>0, <1>1, <1>9, <1>12, <2>1 DEF Account
  <2>5. /\ accounts' \in Seq(Account) /\ Len(accounts') = Len(accounts)
        /\ DOMAIN accounts' = DOMAIN accounts /\ accounts'[a] = x
        /\ \A b \in DOMAIN accounts : b # a => accounts'[b] = accounts[b]
    BY <1>1, <1>8, <1>12, <2>3, <2>4
  <2>6. goodRT' = goodRT \cup {Fresh} /\ goodAT' = goodAT \cup {Fresh}
    BY <1>12 DEF Mint
  <2>7. /\ owner' \in Seq(Nat) /\ DOMAIN owner' = DOMAIN owner \cup {Fresh} /\ Minted(a)
        /\ \A n \in DOMAIN owner : owner'[n] = owner[n]
    BY <1>2, <1>12, <2>6, MintAppends DEF Mint
  <2> QED
    BY <1>0, <1>1, <1>2, <1>12, <2>3, <2>5, <2>6, <2>7 DEF ServerGrows, Minted
<1>13. CASE /\ Request(proc[p]) = "signup" /\ Mint(a, {}) /\ UNCHANGED ticket
            /\ accounts' = Append(accounts,
                 [email |-> proc[p].email, live |-> TRUE, salt |-> proc[p].got,
                  password |-> DeriveKeys(proc[p].pass, proc[p].got),
                  wrapped |-> DeriveKeys(proc[p].pass, proc[p].got),
                  recovery |-> DeriveKeys(Phrase(proc[p].email), proc[p].got)])
  <2>1. PICK x : x = [email |-> proc[p].email, live |-> TRUE, salt |-> proc[p].got,
                      password |-> DeriveKeys(proc[p].pass, proc[p].got),
                      wrapped |-> DeriveKeys(proc[p].pass, proc[p].got),
                      recovery |-> DeriveKeys(Phrase(proc[p].email), proc[p].got)]
    OBVIOUS
  <2>2. DeriveKeys(Phrase(proc[p].email), proc[p].got)
           \in {Phrase(e) : e \in Emails \cup {None}} \X Nat
    BY <1>0 DEF DeriveKeys, Process
  <2>3. x \in Account /\ x.live
    BY <1>0, <1>11, <2>1, <2>2 DEF Account, Process
  <2>4. accounts' = Append(accounts, x)
    BY <1>13, <2>1
  <2>5. /\ accounts' \in Seq(Account) /\ Len(accounts') = a
        /\ DOMAIN accounts' = DOMAIN accounts \cup {a} /\ accounts'[a] = x
        /\ \A b \in DOMAIN accounts : accounts'[b] = accounts[b]
    BY <1>0, <1>1, <1>13, <2>3, <2>4
  <2> QED
    BY <1>0, <1>1, <1>2, <1>13, <2>3, <2>5, MintAppends DEF ServerGrows, Mint
<1> QED
  BY <1>3, <1>4, <1>5, <1>6, <1>7, <1>10, <1>12, <1>13 DEF Serve

-----------------------------------------------------------------------------
(* What the client does with an answer, and without one *)

\* Process p was given the tokens that the service made last.
GivenTokens(p, a, pc) ==
  /\ proc'[p] \in Process /\ proc'[p].pc = pc /\ proc'[p].uid = a /\ proc'[p].rt = Fresh
  /\ proc'[p].at = Fresh /\ proc'[p].step = 1 /\ proc'[p].cmd = proc[p].cmd
  /\ proc'[p].req = proc[p].req /\ proc'[p].got = proc[p].got /\ proc'[p].sent = proc[p].sent

\* The ways an accepted request goes on, by request.
Answered(p, a) ==
  \/ proc[p].pc = "send" /\ proc[p].req = "me" /\ Ended(p, "ok") /\ UNCHANGED sealed
  \/ /\ proc[p].pc = "send" /\ proc[p].req = "post" /\ Ended(p, "ok")
     /\ sealed' = sealed \cup {<<a, proc[p].got>>}
  \/ /\ proc[p].pc = "send" /\ proc[p].req = "pre" /\ Asks(p, proc[p].cmd)
     /\ UNCHANGED <<lock, told, sealed>>
  \/ /\ proc[p].pc = "send" /\ proc[p].req = "recover" /\ Asks(p, "finalize")
     /\ UNCHANGED <<lock, told, sealed>>
  \/ /\ proc[p].pc = "send" /\ proc[p].req \in {"login", "signup", "finalize"}
     /\ GivenTokens(p, a, "persist") /\ UNCHANGED <<lock, told, sealed>>
  \/ /\ proc[p].pc = "rotate" /\ GivenTokens(p, proc[p].uid, "keep")
     /\ UNCHANGED <<lock, told, sealed>>
  \/ /\ proc[p].pc = "send" /\ proc[p].req \in {"logout", "delete"} /\ Leaves(p)
     /\ UNCHANGED <<lock, told, sealed>>

\* After an answer of the server the command goes on as its request requires.
LEMMA ProceedIs ==
  ASSUME Typed, NEW p \in Procs, Sending(p), ProcessKnown(proc[p]), NEW a \in Subject(proc[p]),
         Proceed(p, a)
  PROVE  Answered(p, a) /\ Others(p) /\ salts' \in Nat
<1>0. proc[p] \in Process /\ salts \in Nat /\ Fresh \in Nat /\ proc[p].uid \in Nat
  BY AccountsAreIds DEF Typed, Process
<1>1. proc[p].pc = "send" => RequestFits(proc[p])
  BY DEF ProcessKnown
<1>2. /\ proc[p].pc = "rotate" => Request(proc[p]) = "refresh"
      /\ proc[p].pc = "send" => Request(proc[p]) = proc[p].req /\ proc[p].req # "refresh"
      /\ proc[p].pc \in {"send", "rotate"}
  BY <1>0 DEF Request, Sending, Process, Requests
<1>3. CASE Request(proc[p]) = "me" /\ End(p, "ok") /\ UNCHANGED <<sealed, salts>>
  BY <1>0, <1>2, <1>3, EndIs DEF Answered
<1>4. CASE /\ Request(proc[p]) = "post" /\ End(p, "ok") /\ UNCHANGED salts
           /\ sealed' = sealed \cup {<<a, proc[p].got>>}
  BY <1>0, <1>2, <1>4, EndIs DEF Answered
<1>5. CASE /\ Request(proc[p]) = "pre" /\ UNCHANGED <<lock, told, sealed, salts>>
           /\ Set(p, Ask([proc[p] EXCEPT !.got = accounts[a].salt], proc[p].cmd))
  <2> DEFINE r == [proc[p] EXCEPT !.got = accounts[a].salt]
  <2>1. accounts[a].salt \in Nat
    <3>1. a \in DOMAIN accounts
      BY <1>1, <1>5, SubjectIs
    <3>2. accounts[a] \in Account
      BY <3>1 DEF Typed
    <3> QED
      BY <3>2 DEF Account
  <2>2. r \in Process /\ Keeps(proc[p], r)
    BY <1>0, <2>1 DEF Process, Keeps
  <2> HIDE DEF r
  <2>3. proc'[p] = Ask(r, proc[p].cmd) /\ Others(p)
    BY <1>5, SetOne DEF r
  <2>4. proc[p].cmd \in Requests
    BY <1>1, <1>2, <1>5 DEF RequestFits, Requests
  <2>5. Asks(p, proc[p].cmd)
    BY <2>2, <2>3, <2>4, AskFields DEF Asks, Keeps
  <2> QED
    BY <1>0, <1>2, <1>5, <2>3, <2>5 DEF Answered
<1>6. CASE /\ Request(proc[p]) = "recover" /\ salts' = salts + 1 /\ UNCHANGED <<lock, told, sealed>>
           /\ Set(p, Ask([proc[p] EXCEPT !.got = salts + 1], "finalize"))
  <2> DEFINE r == [proc[p] EXCEPT !.got = salts + 1]
  <2>2. r \in Process /\ Keeps(proc[p], r)
    BY <1>0 DEF Process, Keeps
  <2> HIDE DEF r
  <2>3. proc'[p] = Ask(r, "finalize") /\ Others(p)
    BY <1>6, SetOne DEF r
  <2>4. Asks(p, "finalize")
    BY <2>2, <2>3, AskFields DEF Asks, Keeps, Requests
  <2> QED
    BY <1>0, <1>2, <1>6, <2>3, <2>4 DEF Answered
<1>7. CASE /\ Request(proc[p]) \in {"login", "signup", "finalize"}
           /\ Set(p, Signed(proc[p], a, "persist")) /\ UNCHANGED <<lock, told, sealed, salts>>
  <2>1. a \in Nat
    BY <1>1, <1>7, SubjectIs, AccountsAreIds
  <2>2. proc'[p] = Signed(proc[p], a, "persist") /\ Others(p)
    BY <1>7, SetOne
  <2>3. GivenTokens(p, a, "persist")
    <3>1. proc'[p] = [proc[p] EXCEPT !.pc = "persist", !.uid = a, !.rt = Fresh, !.at = Fresh, !.step = 1]
      BY <2>2 DEF Signed
    <3>2. [proc[p] EXCEPT !.pc = "persist", !.uid = a, !.rt = Fresh, !.at = Fresh, !.step = 1]
             \in Process
      BY <1>0, <2>1 DEF Process
    <3> QED
      BY <1>0, <2>1, <3>1, <3>2 DEF GivenTokens, Process
  <2> QED
    BY <1>0, <1>2, <1>7, <2>2, <2>3 DEF Answered
<1>8. CASE /\ Request(proc[p]) = "refresh" /\ Set(p, Signed(proc[p], proc[p].uid, "keep"))
           /\ UNCHANGED <<lock, told, sealed, salts>>
  <2>2. proc'[p] = Signed(proc[p], proc[p].uid, "keep") /\ Others(p)
    BY <1>8, SetOne
  <2>3. GivenTokens(p, proc[p].uid, "keep")
    <3>1. proc'[p] = [proc[p] EXCEPT !.pc = "keep", !.uid = proc[p].uid, !.rt = Fresh, !.at = Fresh,
                                     !.step = 1]
      BY <2>2 DEF Signed
    <3>2. [proc[p] EXCEPT !.pc = "keep", !.uid = proc[p].uid, !.rt = Fresh, !.at = Fresh, !.step = 1]
             \in Process
      BY <1>0 DEF Process
    <3> QED
      BY <1>0, <3>1, <3>2 DEF GivenTokens, Process
  <2> QED
    BY <1>0, <1>2, <1>8, <2>2, <2>3 DEF Answered
<1>9. CASE /\ Request(proc[p]) \in {"logout", "delete"} /\ Set(p, Forgetting(proc[p]))
           /\ UNCHANGED <<lock, told, sealed, salts>>
  <2>1. Leaves(p) /\ Others(p)
    BY <1>0, <1>9, SetOne, ForgettingFields DEF Leaves
  <2> QED
    BY <1>0, <1>2, <1>9, <2>1 DEF Answered
<1> QED
  BY <1>3, <1>4, <1>5, <1>6, <1>7, <1>8, <1>9 DEF Proceed

\* Everything the proofs use of a process stays; only its tries count on.
Stays(p) ==
  /\ proc'[p] \in Process /\ Keeps(proc[p], proc'[p]) /\ proc'[p].pc = proc[p].pc
  /\ proc'[p].req = proc[p].req /\ proc'[p].got = proc[p].got /\ proc'[p].sent = proc[p].sent
  /\ proc'[p].step = proc[p].step /\ proc'[p].refreshed = proc[p].refreshed

\* The service may have acted although no answer arrives.
MaybeServed(p) ==
  \/ UNCHANGED <<server, burnt>>
  \/ \E a \in Subject(proc[p]) :
        Serve(proc[p], a) /\ burnt' = (burnt \/ proc[p].pc = "rotate")

\* A lost or refused call is tried again or fails; the server may have served
\* it.
LEMMA LostEffect ==
  ASSUME Typed, NEW p \in Procs, Lost(p) \/ Refused(p)
  PROVE  /\ Others(p) /\ Sending(p) /\ UNCHANGED <<kc, stale, early, closed, sealed, salts>>
         /\ faults' = faults + 1 /\ MaybeServed(p)
         /\ \/ Stays(p) /\ UNCHANGED <<lock, told>>
            \/ \E how \in {"auth_required", "unreachable", "incompatible"} : Failed(p, how)
<1>0. proc[p] \in Process
  BY ProcessTyped
<1>1. /\ Sending(p) /\ UNCHANGED <<kc, stale, early, closed, sealed, salts>>
      /\ faults' = faults + 1 /\ MaybeServed(p)
  BY DEF Lost, Refused, counters, clock, Fault, MaybeServed
<1>2. CASE Set(p, [proc[p] EXCEPT !.tries = @ + 1]) /\ UNCHANGED <<lock, told>>
  <2>1. proc'[p] = [proc[p] EXCEPT !.tries = @ + 1] /\ Others(p)
    BY <1>2, SetOne
  <2>2. Stays(p)
    BY <1>0, <2>1 DEF Stays, Process, Keeps
  <2> QED
    BY <1>1, <1>2, <2>1, <2>2
<1>3. ASSUME NEW how \in {"auth_required", "unreachable", "incompatible"}, Fail(p, how)
      PROVE  Failed(p, how) /\ Others(p)
  BY <1>3, FailIs
<1>4. \/ Set(p, [proc[p] EXCEPT !.tries = @ + 1]) /\ UNCHANGED <<lock, told>>
      \/ \E how \in {"auth_required", "unreachable", "incompatible"} : Fail(p, how)
  BY DEF Lost, Refused
<1> QED
  BY <1>1, <1>2, <1>3, <1>4

\* An accepted call is served and answered.
LEMMA AcceptedEffect ==
  ASSUME Typed, NEW p \in Procs, ProcessKnown(proc[p]), Accepted(p)
  PROVE  /\ Others(p) /\ Sending(p) /\ UNCHANGED <<kc, stale, early, burnt, closed, faults>>
         /\ salts' \in Nat
         /\ \E a \in Subject(proc[p]) : Serve(proc[p], a) /\ Answered(p, a)
<1>1. PICK a \in Subject(proc[p]) : Serve(proc[p], a) /\ Proceed(p, a)
  BY DEF Accepted
<1>2. Sending(p) /\ UNCHANGED <<kc, stale, early, burnt, closed, faults>>
  BY DEF Accepted, clock, Fine
<1> QED
  BY <1>1, <1>2, ProceedIs

\* A refusal, or discovery that fails.
LEMMA RefusalEffect ==
  ASSUME Typed, NEW p \in Procs, Discovery(p) \/ Denied(p) \/ Rejected(p)
  PROVE  /\ Others(p) /\ Sending(p) /\ Calm /\ UNCHANGED <<closed, salts>>
         /\ \/ /\ faults' = faults /\ MayRefresh(proc[p]) /\ UNCHANGED <<lock, told>>
               /\ proc'[p] \in Process /\ Keeps(proc[p], proc'[p]) /\ proc'[p].pc = "lock"
               /\ proc'[p].req = proc[p].req /\ proc'[p].got = proc[p].got
               /\ proc'[p].sent = proc[p].sent
            \/ /\ faults' = faults /\ ~MayRefresh(proc[p]) /\ Subject(proc[p]) = {}
               /\ Failed(p, "auth_required")
            \/ faults' = faults /\ Failed(p, "rejected")
            \/ faults' = faults + 1 /\ Failed(p, "unreachable")
<1>0. proc[p] \in Process
  BY ProcessTyped
<1>1. CASE Discovery(p)
  <2>1. Fail(p, "unreachable") /\ faults' = faults + 1 /\ Sending(p)
    BY <1>1 DEF Discovery, Fault, Sending
  <2>2. Failed(p, "unreachable") /\ Others(p)
    BY <2>1, FailIs
  <2> QED
    BY <1>1, <2>1, <2>2 DEF Discovery, Calm, counters, clock
<1>2. CASE Rejected(p)
  <2>1. Fail(p, "rejected") /\ faults' = faults /\ Sending(p)
    BY <1>2 DEF Rejected, Fine
  <2>2. Failed(p, "rejected") /\ Others(p)
    BY <2>1, FailIs
  <2> QED
    BY <1>2, <2>1, <2>2 DEF Rejected, Calm, counters, clock
<1>3. CASE Denied(p)
  <2>1. faults' = faults /\ Sending(p) /\ Calm /\ UNCHANGED <<closed, salts>>
    BY <1>3 DEF Denied, Fine, Calm, counters, clock
  <2>2. CASE MayRefresh(proc[p])
    <3>1. proc'[p] = [proc[p] EXCEPT !.pc = "lock"] /\ Others(p) /\ UNCHANGED <<lock, told>>
      BY <1>3, <2>2, SetOne DEF Denied
    <3>2. /\ proc'[p] \in Process /\ Keeps(proc[p], proc'[p]) /\ proc'[p].pc = "lock"
          /\ proc'[p].req = proc[p].req /\ proc'[p].got = proc[p].got
          /\ proc'[p].sent = proc[p].sent
      BY <1>0, <3>1 DEF Process, Keeps
    <3> QED
      BY <2>1, <2>2, <3>1, <3>2
  <2>3. CASE ~MayRefresh(proc[p])
    <3>1. Fail(p, "auth_required") /\ Subject(proc[p]) = {}
      BY <1>3, <2>3 DEF Denied
    <3>2. Failed(p, "auth_required") /\ Others(p)
      BY <3>1, FailIs
    <3> QED
      BY <2>1, <2>3, <3>1, <3>2
  <2> QED
    BY <2>2, <2>3
<1> QED
  BY <1>1, <1>2, <1>3

-----------------------------------------------------------------------------
(* The lock, the keychain and the surroundings *)

\* What the keychain has for the account of r is read again.
LEMMA RehydratedFields ==
  ASSUME Typed, NEW r \in Process, r.uid \in {NoId} \cup DOMAIN accounts
  PROVE  /\ Rehydrated(r) \in Process /\ Rehydrated(r).uid = r.uid /\ Rehydrated(r).cmd = r.cmd
         /\ Rehydrated(r).req = r.req /\ Rehydrated(r).got = r.got /\ Rehydrated(r).sent = r.sent
         /\ \/ /\ r.uid = NoId \/ kc.rt[r.uid] = NoId
               /\ Rehydrated(r).rt = r.rt /\ Rehydrated(r).at = r.at
            \/ /\ r.uid # NoId /\ kc.rt[r.uid] # NoId /\ Rehydrated(r).rt = kc.rt[r.uid]
               /\ Rehydrated(r).at \in {NoId, kc.at[r.uid]}
<1>1. CASE r.uid = NoId \/ kc.rt[r.uid] = NoId
  BY <1>1 DEF Rehydrated
<1>2. CASE ~(r.uid = NoId \/ kc.rt[r.uid] = NoId)
  <2>1. r.uid \in Ids
    BY <1>2, AccountsAreIds
  <2>2. Rehydrated(r) = Hydrated(r, r.uid)
    BY <1>2 DEF Rehydrated
  <2> QED
    BY <1>2, <2>1, <2>2, HydratedFields
<1> QED
  BY <1>1, <1>2

\* The tokens p has from now on are its own or the keychain's.
Rereads(p) ==
  /\ proc'[p] \in Process /\ proc'[p].uid = proc[p].uid /\ proc'[p].cmd = proc[p].cmd
  /\ proc'[p].req = proc[p].req /\ proc'[p].got = proc[p].got /\ proc'[p].sent = proc[p].sent
  /\ \/ /\ proc[p].uid = NoId \/ kc.rt[proc[p].uid] = NoId
        /\ proc'[p].rt = proc[p].rt /\ proc'[p].at = proc[p].at
     \/ /\ proc[p].uid # NoId /\ kc.rt[proc[p].uid] # NoId /\ proc'[p].rt = kc.rt[proc[p].uid]
        /\ proc'[p].at \in {NoId, kc.at[proc[p].uid]}

\* Under the lock a process takes over a newer token, rotates its own, or
\* gives up.
LEMMA LockEffect ==
  ASSUME Typed, NEW p \in Procs, LockRefresh(p)
  PROVE  /\ Others(p) /\ Calm /\ UNCHANGED <<closed, salts>> /\ proc[p].pc = "lock" /\ lock = None
         /\ \/ /\ faults' = faults /\ Rereads(p) /\ proc'[p].pc = "send" /\ UNCHANGED <<lock, told>>
               /\ proc'[p].refreshed /\ proc'[p].at # NoId /\ proc'[p].at \notin stale
            \/ /\ faults' = faults /\ Rereads(p) /\ proc'[p].pc = "rotate" /\ proc'[p].rt # NoId
               /\ lock' = p /\ UNCHANGED told
            \/ /\ faults' = faults /\ Failed(p, "auth_required")
               /\ proc[p].uid = NoId \/ proc[p].rt = NoId \/ kc.rt[proc[p].uid] = NoId
               /\ proc[p].uid # NoId => proc[p].rt = NoId
            \/ faults' = faults + 1 /\ Failed(p, "auth_required")
<1> DEFINE r == Rehydrated(proc[p])
<1>0. proc[p] \in Process /\ proc[p].uid \in {NoId} \cup DOMAIN accounts
  BY DEF Typed
<1>1. /\ r \in Process /\ r.uid = proc[p].uid /\ r.cmd = proc[p].cmd
      /\ r.req = proc[p].req /\ r.got = proc[p].got /\ r.sent = proc[p].sent
      /\ \/ /\ proc[p].uid = NoId \/ kc.rt[proc[p].uid] = NoId
            /\ r.rt = proc[p].rt /\ r.at = proc[p].at
         \/ /\ proc[p].uid # NoId /\ kc.rt[proc[p].uid] # NoId /\ r.rt = kc.rt[proc[p].uid]
            /\ r.at \in {NoId, kc.at[proc[p].uid]}
  BY <1>0, RehydratedFields
<1>2. Calm /\ UNCHANGED <<closed, salts>> /\ proc[p].pc = "lock" /\ lock = None
  BY DEF LockRefresh, Calm, counters, clock
<1>3. \/ /\ Fine /\ Bearer(r) # NoId
         /\ Set(p, [r EXCEPT !.pc = "send", !.refreshed = TRUE]) /\ UNCHANGED <<lock, told>>
      \/ Fine /\ Bearer(r) = NoId /\ r.rt = NoId /\ Fail(p, "auth_required")
      \/ /\ Fine /\ Bearer(r) = NoId /\ r.rt # NoId /\ lock' = p
         /\ Set(p, [r EXCEPT !.pc = "rotate", !.tries = 0]) /\ UNCHANGED told
      \/ Fault /\ Fail(p, "auth_required")
  BY DEF LockRefresh
<1> HIDE DEF r
<1>4. CASE /\ Fine /\ Bearer(r) # NoId
           /\ Set(p, [r EXCEPT !.pc = "send", !.refreshed = TRUE]) /\ UNCHANGED <<lock, told>>
  <2>1. proc'[p] = [r EXCEPT !.pc = "send", !.refreshed = TRUE] /\ Others(p)
    BY <1>4, SetOne
  <2>2. /\ proc'[p] \in Process /\ proc'[p].uid = r.uid /\ proc'[p].cmd = r.cmd
        /\ proc'[p].req = r.req /\ proc'[p].got = r.got /\ proc'[p].sent = r.sent
        /\ proc'[p].rt = r.rt /\ proc'[p].at = r.at /\ proc'[p].pc = "send" /\ proc'[p].refreshed
    BY <1>1, <2>1 DEF Process
  <2>3. r.at # NoId /\ r.at \notin stale
    BY <1>4 DEF Bearer
  <2>4. Rereads(p)
    BY <1>1, <2>2 DEF Rereads
  <2> QED
    BY <1>2, <1>4, <2>1, <2>2, <2>3, <2>4 DEF Fine
<1>5. CASE Fine /\ Bearer(r) = NoId /\ r.rt = NoId /\ Fail(p, "auth_required")
  <2>1. Failed(p, "auth_required") /\ Others(p) /\ faults' = faults
    BY <1>5, FailIs DEF Fine
  <2>2. /\ proc[p].uid = NoId \/ proc[p].rt = NoId \/ kc.rt[proc[p].uid] = NoId
        /\ proc[p].uid # NoId => proc[p].rt = NoId
    BY <1>1, <1>5
  <2> QED
    BY <1>2, <2>1, <2>2
<1>6. CASE /\ Fine /\ Bearer(r) = NoId /\ r.rt # NoId /\ lock' = p
           /\ Set(p, [r EXCEPT !.pc = "rotate", !.tries = 0]) /\ UNCHANGED told
  <2>1. proc'[p] = [r EXCEPT !.pc = "rotate", !.tries = 0] /\ Others(p)
    BY <1>6, SetOne
  <2>2. /\ proc'[p] \in Process /\ proc'[p].uid = r.uid /\ proc'[p].cmd = r.cmd
        /\ proc'[p].req = r.req /\ proc'[p].got = r.got /\ proc'[p].sent = r.sent
        /\ proc'[p].rt = r.rt /\ proc'[p].at = r.at /\ proc'[p].pc = "rotate"
    <3>1. [r EXCEPT !.pc = "rotate", !.tries = 0] \in Process
      BY <1>1 DEF Process
    <3> QED
      BY <1>1, <2>1, <3>1 DEF Process
  <2>4. Rereads(p)
    BY <1>1, <2>2 DEF Rereads
  <2> QED
    BY <1>2, <1>6, <2>1, <2>2, <2>4 DEF Fine
<1>7. CASE Fault /\ Fail(p, "auth_required")
  BY <1>2, <1>7, FailIs DEF Fault
<1> QED
  BY <1>3, <1>4, <1>5, <1>6, <1>7

\* What one step of Persist stores.
Stores(p) ==
  LET r == proc[p] IN
  /\ kc'.cur \in {kc.cur, r.uid}
  /\ kc'.rt = IF r.step = 1 THEN [kc.rt EXCEPT ![r.uid] = r.rt] ELSE kc.rt
  /\ kc'.at = IF r.step = 2 THEN [kc.at EXCEPT ![r.uid] = r.at] ELSE kc.at
  /\ kc'.dek = IF r.step = 4 THEN [kc.dek EXCEPT ![r.uid] = r.uid] ELSE kc.dek
  /\ kc'.wrapped = IF r.step = 5 THEN [kc.wrapped EXCEPT ![r.uid] = DeriveKeys(r.pass, r.got)]
                   ELSE kc.wrapped
  /\ kc' \in Keychain

\* Writing one record of a sign-in changes the keychain at that record alone.
LEMMA StoredIs ==
  ASSUME Typed, NEW p \in Procs, proc[p].uid \in Ids, proc[p].step \in 1..5, kc' = Stored(proc[p])
  PROVE  Stores(p)
<1>0. /\ proc[p].rt \in Nat /\ proc[p].at \in Nat /\ proc[p].uid \in Nat
      /\ DeriveKeys(proc[p].pass, proc[p].got) \in WrappedKey
  BY DEF Typed, Process, DeriveKeys, WrappedKey
<1>1. /\ kc \in Keychain /\ kc.rt \in [Ids -> Nat] /\ kc.at \in [Ids -> Nat]
      /\ kc.dek \in [Ids -> Nat] /\ kc.wrapped \in [Ids -> WrappedKey \cup {<<>>}]
  BY DEF Typed, Keychain
<1>2. CASE proc[p].step = 1
  <2>1. PICK f \in [Ids -> Nat] : f = [kc.rt EXCEPT ![proc[p].uid] = proc[p].rt]
    BY <1>0, <1>1
  <2>2. kc' = [kc EXCEPT !.rt = f]
    BY <1>2, <2>1 DEF Stored
  <2>3. [kc EXCEPT !.rt = f] \in Keychain
    BY <1>1 DEF Keychain
  <2>4. kc'.cur = kc.cur /\ kc'.rt = f /\ kc'.at = kc.at
        /\ kc'.dek = kc.dek /\ kc'.wrapped = kc.wrapped
    BY <1>1, <2>2 DEF Keychain
  <2> QED
    BY <1>2, <2>1, <2>2, <2>3, <2>4 DEF Stores
<1>3. CASE proc[p].step = 2
  <2>1. PICK f \in [Ids -> Nat] : f = [kc.at EXCEPT ![proc[p].uid] = proc[p].at]
    BY <1>0, <1>1
  <2>2. kc' = [kc EXCEPT !.at = f]
    BY <1>3, <2>1 DEF Stored
  <2>3. [kc EXCEPT !.at = f] \in Keychain
    BY <1>1 DEF Keychain
  <2>4. kc'.cur = kc.cur /\ kc'.rt = kc.rt /\ kc'.at = f
        /\ kc'.dek = kc.dek /\ kc'.wrapped = kc.wrapped
    BY <1>1, <2>2 DEF Keychain
  <2> QED
    BY <1>3, <2>1, <2>2, <2>3, <2>4 DEF Stores
<1>4. CASE proc[p].step = 3
  <2>2. kc' = [kc EXCEPT !.cur = proc[p].uid]
    BY <1>4 DEF Stored
  <2>3. [kc EXCEPT !.cur = proc[p].uid] \in Keychain
    BY <1>0, <1>1 DEF Keychain
  <2>4. kc'.cur = proc[p].uid /\ kc'.rt = kc.rt /\ kc'.at = kc.at
        /\ kc'.dek = kc.dek /\ kc'.wrapped = kc.wrapped
    BY <1>1, <2>2 DEF Keychain
  <2> QED
    BY <1>4, <2>2, <2>3, <2>4 DEF Stores
<1>5. CASE proc[p].step = 4
  <2>1. PICK f \in [Ids -> Nat] : f = [kc.dek EXCEPT ![proc[p].uid] = proc[p].uid]
    BY <1>0, <1>1
  <2>2. kc' = [kc EXCEPT !.dek = f]
    BY <1>5, <2>1 DEF Stored
  <2>3. [kc EXCEPT !.dek = f] \in Keychain
    BY <1>1 DEF Keychain
  <2>4. kc'.cur = kc.cur /\ kc'.rt = kc.rt /\ kc'.at = kc.at
        /\ kc'.dek = f /\ kc'.wrapped = kc.wrapped
    BY <1>1, <2>2 DEF Keychain
  <2> QED
    BY <1>5, <2>1, <2>2, <2>3, <2>4 DEF Stores
<1>6. CASE proc[p].step = 5
  <2> DEFINE key == DeriveKeys(proc[p].pass, proc[p].got)
  <2>1. PICK f \in [Ids -> WrappedKey \cup {<<>>}] : f = [kc.wrapped EXCEPT ![proc[p].uid] = key]
    <3> HIDE DEF key
    <3> QED
      BY <1>0, <1>1 DEF key
  <2>2. kc' = [kc EXCEPT !.wrapped = f]
    BY <1>6, <2>1 DEF Stored
  <2>3. [kc EXCEPT !.wrapped = f] \in Keychain
    BY <1>1 DEF Keychain
  <2>4. kc'.cur = kc.cur /\ kc'.rt = kc.rt /\ kc'.at = kc.at
        /\ kc'.dek = kc.dek /\ kc'.wrapped = f
    BY <1>1, <2>2 DEF Keychain
  <2> QED
    BY <1>6, <2>1, <2>2, <2>3, <2>4 DEF Stores
<1> QED
  BY <1>2, <1>3, <1>4, <1>5, <1>6

\* A process that has a token has the account the token is for.
LEMMA HolderIsAccount ==
  ASSUME Typed, TokensOwned, NEW p \in Procs, proc[p].rt # NoId
  PROVE  proc[p].uid \in DOMAIN accounts /\ proc[p].uid \in Ids /\ proc[p].uid # NoId
BY AccountsAreIds DEF Typed, TokensOwned, TokenOf

\* The next entry of the keychain is due.
Advances(p) ==
  /\ proc'[p] \in Process /\ Keeps(proc[p], proc'[p]) /\ proc'[p].pc = proc[p].pc
  /\ proc'[p].step = proc[p].step + 1 /\ proc'[p].req = proc[p].req
  /\ proc'[p].got = proc[p].got /\ proc'[p].sent = proc[p].sent
  /\ UNCHANGED <<lock, told>>

\* The next record is the turn of the same process.
LEMMA AdvanceIs ==
  ASSUME Typed, NEW p \in Procs, Set(p, [proc[p] EXCEPT !.step = @ + 1]), UNCHANGED <<lock, told>>
  PROVE  Advances(p) /\ Others(p)
<1>0. proc[p] \in Process
  BY ProcessTyped
<1>1. proc'[p] = [proc[p] EXCEPT !.step = @ + 1] /\ Others(p)
  BY SetOne
<1>2. [proc[p] EXCEPT !.step = @ + 1] \in Process
  BY <1>0 DEF Process
<1> QED
  BY <1>0, <1>1, <1>2 DEF Advances, Process, Keeps

\* A sign-in stores its records one by one and ends after the fifth.
LEMMA PersistEffect ==
  ASSUME Typed, TokensOwned, NEW p \in Procs, ProcessKnown(proc[p]), Persist(p)
  PROVE  /\ Others(p) /\ UNCHANGED <<server, stale, early, burnt, closed, sealed, salts>>
         /\ proc[p].pc = "persist"
         /\ \/ faults' = faults /\ Stores(p) /\ proc[p].step < 5 /\ Advances(p)
            \/ faults' = faults /\ Stores(p) /\ proc[p].step = 5 /\ Ended(p, "ok")
            \/ faults' = faults + 1 /\ UNCHANGED kc /\ Ended(p, "keychain")
<1>0. proc[p].pc = "persist" /\ UNCHANGED <<server, stale, early, burnt, closed, sealed, salts>>
  BY DEF Persist, counters, clock
<1>1. proc[p].uid \in Ids /\ proc[p].step \in 1..5
  BY <1>0, HolderIsAccount DEF ProcessKnown
<1>2. CASE /\ Fine /\ kc' = Stored(proc[p]) /\ proc[p].step < 5
           /\ Set(p, [proc[p] EXCEPT !.step = @ + 1]) /\ UNCHANGED <<lock, told>>
  BY <1>0, <1>1, <1>2, StoredIs, AdvanceIs DEF Fine
<1>3. CASE Fine /\ kc' = Stored(proc[p]) /\ ~(proc[p].step < 5) /\ End(p, "ok")
  <2>1. proc[p].step = 5
    BY <1>1, <1>3
  <2> QED
    BY <1>0, <1>1, <1>3, <2>1, StoredIs, EndIs DEF Fine
<1>4. CASE Fault /\ End(p, "keychain") /\ UNCHANGED kc
  BY <1>0, <1>4, EndIs DEF Fault
<1> QED
  BY <1>2, <1>3, <1>4 DEF Persist

\* A refresh stores its records one by one and sends again after the third.
LEMMA KeepEffect ==
  ASSUME Typed, TokensOwned, NEW p \in Procs, ProcessKnown(proc[p]), KeepTokens(p)
  PROVE  /\ Others(p) /\ UNCHANGED <<server, stale, early, closed, sealed, salts>>
         /\ proc[p].pc = "keep"
         /\ \/ /\ faults' = faults /\ Stores(p) /\ proc[p].step < 3 /\ Advances(p)
               /\ UNCHANGED burnt
            \/ /\ faults' = faults /\ Stores(p) /\ proc[p].step = 3 /\ UNCHANGED <<told, burnt>>
               /\ proc'[p] \in Process /\ Keeps(proc[p], proc'[p]) /\ proc'[p].pc = "send"
               /\ proc'[p].req = proc[p].req /\ proc'[p].got = proc[p].got
               /\ proc'[p].sent = proc[p].sent /\ lock' = IF lock = p THEN None ELSE lock
            \/ /\ faults' = faults + 1 /\ UNCHANGED kc /\ Failed(p, "auth_required")
               /\ burnt' = (burnt \/ proc[p].step = 1)
<1>0. proc[p].pc = "keep" /\ UNCHANGED <<server, stale, early, closed, sealed, salts>>
  BY DEF KeepTokens, counters, clock
<1>1. proc[p].uid \in Ids /\ proc[p].step \in 1..3 /\ proc[p].step \in 1..5
  BY <1>0, HolderIsAccount DEF ProcessKnown
<1>2. CASE /\ Fine /\ kc' = Stored(proc[p]) /\ proc[p].step < 3 /\ UNCHANGED <<told, burnt>>
           /\ Set(p, [proc[p] EXCEPT !.step = @ + 1]) /\ UNCHANGED lock
  BY <1>0, <1>1, <1>2, StoredIs, AdvanceIs DEF Fine
<1>3. CASE /\ Fine /\ kc' = Stored(proc[p]) /\ ~(proc[p].step < 3) /\ UNCHANGED <<told, burnt>>
           /\ Set(p, [proc[p] EXCEPT !.pc = "send", !.refreshed = TRUE]) /\ Unlock(p)
  <2>1. proc[p].step = 3 /\ Stores(p)
    BY <1>1, <1>3, StoredIs
  <2>2. proc'[p] = [proc[p] EXCEPT !.pc = "send", !.refreshed = TRUE] /\ Others(p)
    BY <1>3, SetOne
  <2>3. proc[p] \in Process
    BY ProcessTyped
  <2>4. [proc[p] EXCEPT !.pc = "send", !.refreshed = TRUE] \in Process
    BY <2>3 DEF Process
  <2>5. /\ proc'[p] \in Process /\ Keeps(proc[p], proc'[p]) /\ proc'[p].pc = "send"
        /\ proc'[p].req = proc[p].req /\ proc'[p].got = proc[p].got /\ proc'[p].sent = proc[p].sent
    BY <2>2, <2>3, <2>4 DEF Process, Keeps
  <2> QED
    BY <1>0, <1>3, <2>1, <2>2, <2>5 DEF Fine, Unlock
<1>4. CASE /\ Fault /\ Fail(p, "auth_required") /\ UNCHANGED kc
           /\ burnt' = (burnt \/ proc[p].step = 1)
  BY <1>0, <1>4, FailIs DEF Fault
<1> QED
  BY <1>2, <1>3, <1>4 DEF KeepTokens

\* What one step of Forget clears: one entry of the account, or the pointer.
Clears(p) ==
  LET a == proc[p].uid IN
  /\ kc' \in Keychain /\ kc'.cur \in {kc.cur, NoId}
  /\ \/ UNCHANGED kc
     \/ \A b \in Ids : b # a => /\ kc'.rt[b] = kc.rt[b] /\ kc'.at[b] = kc.at[b]
                                /\ kc'.dek[b] = kc.dek[b] /\ kc'.wrapped[b] = kc.wrapped[b]
  /\ \A b \in Ids : /\ kc'.rt[b] \in {kc.rt[b], NoId} /\ kc'.at[b] \in {kc.at[b], NoId}
                    /\ kc'.dek[b] \in {kc.dek[b], NoId}

\* A sign-out clears its records one by one, whatever fails.
LEMMA ForgetEffect ==
  ASSUME Typed, NEW p \in Procs, ProcessKnown(proc[p]), Forget(p)
  PROVE  /\ Others(p) /\ UNCHANGED <<server, stale, early, burnt, closed, sealed, salts>>
         /\ proc[p].pc = "forget" /\ faults' \in {faults, faults + 1} /\ Clears(p)
         /\ \/ proc[p].step < 5 /\ Advances(p)
            \/ \E how \in {"ok", "keychain"} : Ended(p, how)
<1> DEFINE r == proc[p]
           a == proc[p].uid
<1>0. proc[p].pc = "forget" /\ UNCHANGED <<server, stale, early, burnt, closed, sealed, salts>>
  BY DEF Forget, counters, clock
<1>1. /\ kc \in Keychain /\ kc.rt \in [Ids -> Nat] /\ kc.at \in [Ids -> Nat]
      /\ kc.dek \in [Ids -> Nat] /\ kc.wrapped \in [Ids -> WrappedKey \cup {<<>>}] /\ NoId \in Nat
  BY DEF Typed, Keychain, NoId
<1>2. r.step \in 1..5 /\ (r.step < 5 => a \in Ids)
  BY <1>0, AccountsAreIds DEF ProcessKnown, Typed
<1>3. UNCHANGED kc => Clears(p)
  BY <1>1 DEF Clears
<1>4. ASSUME kc' = CASE r.step = 1 -> [kc EXCEPT !.rt[a] = NoId]
                     [] r.step = 2 -> [kc EXCEPT !.dek[a] = NoId]
                     [] r.step = 3 -> [kc EXCEPT !.wrapped[a] = <<>>]
                     [] r.step = 4 -> [kc EXCEPT !.at[a] = NoId]
                     [] r.step = 5 -> [kc EXCEPT !.cur = NoId]
      PROVE  Clears(p)
  <2>1. CASE r.step = 1
    <3>1. PICK f \in [Ids -> Nat] : f = [kc.rt EXCEPT ![a] = NoId]
      BY <1>1, <1>2, <2>1
    <3>2. kc' = [kc EXCEPT !.rt = f]
      BY <1>4, <2>1, <3>1
    <3>4. [kc EXCEPT !.rt = f] \in Keychain
      BY <1>1 DEF Keychain
    <3>3. kc'.cur = kc.cur /\ kc'.rt = f /\ kc'.at = kc.at /\ kc'.dek = kc.dek /\ kc'.wrapped = kc.wrapped
      BY <1>1, <3>2 DEF Keychain
    <3> QED
      BY <1>1, <1>2, <2>1, <3>1, <3>2, <3>3, <3>4 DEF Clears
  <2>2. CASE r.step = 2
    <3>1. PICK f \in [Ids -> Nat] : f = [kc.dek EXCEPT ![a] = NoId]
      BY <1>1, <1>2, <2>2
    <3>2. kc' = [kc EXCEPT !.dek = f]
      BY <1>4, <2>2, <3>1
    <3>4. [kc EXCEPT !.dek = f] \in Keychain
      BY <1>1 DEF Keychain
    <3>3. kc'.cur = kc.cur /\ kc'.rt = kc.rt /\ kc'.at = kc.at /\ kc'.dek = f /\ kc'.wrapped = kc.wrapped
      BY <1>1, <3>2 DEF Keychain
    <3> QED
      BY <1>1, <1>2, <2>2, <3>1, <3>2, <3>3, <3>4 DEF Clears
  <2>3. CASE r.step = 3
    <3>1. PICK f \in [Ids -> WrappedKey \cup {<<>>}] : f = [kc.wrapped EXCEPT ![a] = <<>>]
      BY <1>1, <1>2, <2>3
    <3>2. kc' = [kc EXCEPT !.wrapped = f]
      BY <1>4, <2>3, <3>1
    <3>4. [kc EXCEPT !.wrapped = f] \in Keychain
      BY <1>1 DEF Keychain
    <3>3. kc'.cur = kc.cur /\ kc'.rt = kc.rt /\ kc'.at = kc.at /\ kc'.dek = kc.dek /\ kc'.wrapped = f
      BY <1>1, <3>2 DEF Keychain
    <3> QED
      BY <1>1, <1>2, <2>3, <3>1, <3>2, <3>3, <3>4 DEF Clears
  <2>4. CASE r.step = 4
    <3>1. PICK f \in [Ids -> Nat] : f = [kc.at EXCEPT ![a] = NoId]
      BY <1>1, <1>2, <2>4
    <3>2. kc' = [kc EXCEPT !.at = f]
      BY <1>4, <2>4, <3>1
    <3>4. [kc EXCEPT !.at = f] \in Keychain
      BY <1>1 DEF Keychain
    <3>3. kc'.cur = kc.cur /\ kc'.rt = kc.rt /\ kc'.at = f /\ kc'.dek = kc.dek /\ kc'.wrapped = kc.wrapped
      BY <1>1, <3>2 DEF Keychain
    <3> QED
      BY <1>1, <1>2, <2>4, <3>1, <3>2, <3>3, <3>4 DEF Clears
  <2>5. CASE r.step = 5
    <3>1. kc' = [kc EXCEPT !.cur = NoId]
      BY <1>4, <2>5
    <3>2. [kc EXCEPT !.cur = NoId] \in Keychain
      BY <1>1 DEF Keychain
    <3>3. kc'.cur = NoId /\ kc'.rt = kc.rt /\ kc'.at = kc.at /\ kc'.dek = kc.dek /\ kc'.wrapped = kc.wrapped
      BY <1>1, <3>1 DEF Keychain
    <3> QED
      BY <1>1, <3>1, <3>2, <3>3 DEF Clears
  <2> QED
    BY <1>2, <2>1, <2>2, <2>3, <2>4, <2>5
<1>5. faults' \in {faults, faults + 1} /\ Clears(p)
  BY <1>3, <1>4 DEF Forget, Fine, Fault
<1>6. CASE r.step < 5 /\ Set(p, [r EXCEPT !.step = @ + 1]) /\ UNCHANGED <<lock, told>>
  BY <1>0, <1>5, <1>6, AdvanceIs
<1>7. CASE r.step < 5 /\ Set(p, [r EXCEPT !.step = @ + 1, !.ok = FALSE]) /\ UNCHANGED <<lock, told>>
  <2>0. r \in Process
    BY ProcessTyped
  <2>1. proc'[p] = [r EXCEPT !.step = @ + 1, !.ok = FALSE] /\ Others(p)
    BY <1>7, SetOne
  <2>2. [r EXCEPT !.step = @ + 1, !.ok = FALSE] \in Process
    <3>1. PICK n \in Nat : n = r.step + 1
      BY <2>0 DEF Process
    <3>2. [r EXCEPT !.step = n, !.ok = FALSE] \in Process
      BY <2>0 DEF Process
    <3> QED
      BY <3>1, <3>2
  <2>3. Advances(p)
    <3>1. Keeps(r, proc'[p]) /\ proc'[p].pc = r.pc /\ proc'[p].step = r.step + 1
      BY <2>0, <2>1 DEF Process, Keeps
    <3>2. proc'[p].req = r.req /\ proc'[p].got = r.got /\ proc'[p].sent = r.sent
      BY <2>0, <2>1 DEF Process
    <3> QED
      BY <1>7, <2>1, <2>2, <3>1, <3>2 DEF Advances
  <2> QED
    BY <1>0, <1>5, <1>7, <2>1, <2>3
<1>8. ASSUME NEW how \in {"ok", "keychain"}, End(p, how) PROVE Ended(p, how) /\ Others(p)
  BY <1>8, EndIs
<1>9. \/ r.step < 5 /\ Set(p, [r EXCEPT !.step = @ + 1]) /\ UNCHANGED <<lock, told>>
      \/ r.step < 5 /\ Set(p, [r EXCEPT !.step = @ + 1, !.ok = FALSE]) /\ UNCHANGED <<lock, told>>
      \/ \E how \in {"ok", "keychain"} : End(p, how)
  BY DEF Forget
<1> QED
  BY <1>0, <1>5, <1>6, <1>7, <1>8, <1>9

\* A process that dies between rotation and the first record burns the token.
LEMMA CrashEffect ==
  ASSUME Typed, NEW p \in Procs, Crash(p)
  PROVE  /\ Others(p) /\ UNCHANGED <<server, kc, stale, early, closed, sealed, salts>>
         /\ faults' = faults + 1 /\ Ended(p, "died")
         /\ burnt' = (burnt \/ (proc[p].pc = "keep" /\ proc[p].step = 1))
BY EndIs DEF Crash, counters, clock, Fault

-----------------------------------------------------------------------------
(* Types *)

\* A command that ends leaves a report and an empty process.
LEMMA EndedTyped ==
  ASSUME Typed, NEW p \in Procs, NEW how \in Endings, Ended(p, how)
  PROVE  /\ told' \in [Procs -> (Commands \cup {"none"}) \X Endings \X Nat]
         /\ proc'[p] \in Process /\ proc'[p].uid = NoId
<1>1. proc[p].cmd \in Commands \cup {"none"} /\ proc[p].uid \in Nat
  BY DEF Typed, Process
<1>2. <<proc[p].cmd, how, proc[p].uid>> \in (Commands \cup {"none"}) \X Endings \X Nat
  BY <1>1
<1>3. told \in [Procs -> (Commands \cup {"none"}) \X Endings \X Nat]
  BY DEF Typed
<1> DEFINE R == (Commands \cup {"none"}) \X Endings \X Nat
<1> HIDE DEF R
<1>4. told' \in [Procs -> R]
  BY <1>2, <1>3 DEF Ended, R
<1> QED
  BY <1>4, IdleFields DEF Ended, R

\* A failed call keeps the types.
LEMMA FailedTyped ==
  ASSUME Typed, NEW p \in Procs, NEW how \in Endings, Failed(p, how)
  PROVE  /\ told' \in [Procs -> (Commands \cup {"none"}) \X Endings \X Nat]
         /\ proc'[p] \in Process /\ proc'[p].uid \in {NoId, proc[p].uid}
<1>1. CASE Ended(p, how)
  BY <1>1, EndedTyped
<1>2. CASE Leaves(p)
  BY <1>2 DEF Leaves, Keeps, Typed
<1> QED
  BY <1>1, <1>2 DEF Failed

\* The parts of Typed that a step of p has to establish.
LEMMA TypedFrom ==
  ASSUME Typed, NEW p \in Procs, Others(p),
         ServerGrows \/ UNCHANGED server, UNCHANGED stale,
         kc' \in Keychain, kc'.cur \in {NoId} \cup DOMAIN accounts',
         proc'[p] \in Process, proc'[p].uid \in {NoId} \cup DOMAIN accounts',
         faults' \in {faults, faults + 1}, salts' \in Nat,
         told' \in [Procs -> (Commands \cup {"none"}) \X Endings \X Nat]
  PROVE  Typed'
<1>1. /\ accounts' \in Seq(Account) /\ Len(accounts') <= MaxAccounts /\ owner' \in Seq(Nat)
      /\ \A n \in DOMAIN owner' : owner'[n] \in DOMAIN accounts'
      /\ goodRT' \cup goodAT' \subseteq DOMAIN owner' /\ ticket' \subseteq DOMAIN accounts'
      /\ DOMAIN accounts \subseteq DOMAIN accounts' /\ DOMAIN owner \subseteq DOMAIN owner'
  BY DEF Typed, ServerGrows, server
<1>2. stale' \subseteq DOMAIN owner'
  BY <1>1 DEF Typed
<1>3. proc' \in [Procs -> Process]
  BY DEF Others, Typed
<1>4. \A q \in Procs : proc'[q].uid \in {NoId} \cup DOMAIN accounts'
  <2>1. \A q \in Procs : q # p => proc'[q] = proc[q]
    BY DEF Others
  <2>2. \A q \in Procs : proc[q].uid \in {NoId} \cup DOMAIN accounts
    BY DEF Typed
  <2> QED
    BY <1>1, <2>1, <2>2
<1>5. faults' \in Nat
  BY DEF Typed
<1> QED
  BY <1>1, <1>2, <1>3, <1>4, <1>5 DEF Typed

\* Every step keeps the types.
LEMMA TypedStep ==
  ASSUME Typed, TokensOwned, ProcessesKnown, [Next]_vars
  PROVE  Typed'
<1>0. \A p \in Procs : /\ ProcessKnown(proc[p]) /\ proc[p] \in Process
                       /\ proc[p].uid \in {NoId} \cup DOMAIN accounts
  BY DEF ProcessesKnown, Typed
<1>a. /\ kc \in Keychain /\ kc.cur \in {NoId} \cup DOMAIN accounts /\ salts \in Nat
      /\ told \in [Procs -> (Commands \cup {"none"}) \X Endings \X Nat]
  BY DEF Typed
<1>1. ASSUME NEW p \in Procs, NEW x \in Plans, Start(p, x) PROVE Typed'
  <2>1. /\ Others(p) /\ UNCHANGED <<server, kc, stale, told, salts>>
        /\ faults' \in {faults, faults + 1} /\ proc'[p] \in Process
        /\ proc'[p].uid \in {NoId, kc.cur}
    BY <1>1, StartEffect DEF Calm
  <2>2. UNCHANGED accounts
    BY <2>1 DEF server
  <2> QED
    BY <1>a, <2>1, <2>2, TypedFrom
<1>2. ASSUME NEW p \in Procs,
             BeginStatus(p) \/ BeginPush(p) \/ BeginLogin(p) \/ BeginSignup(p) \/ BeginLeave(p)
      PROVE  Typed'
  <2>1. /\ Others(p) /\ Calm /\ salts' \in Nat /\ faults' \in {faults, faults + 1}
        /\ \/ Ended(p, "signed_out") \/ Ended(p, "no_keys") \/ Ended(p, "no_recovery_file")
           \/ /\ proc'[p] \in Process /\ Keeps(proc[p], proc'[p]) /\ UNCHANGED told
    BY <1>a, <1>2, StatusEffect, PushEffect, LoginEffect, SignupEffect, LeaveEffect
       DEF Asks, Leaves
  <2>2. UNCHANGED <<accounts, server, kc, stale>>
    BY <2>1 DEF Calm, server
  <2>3. /\ proc'[p] \in Process /\ proc'[p].uid \in {NoId, proc[p].uid}
        /\ told' \in [Procs -> (Commands \cup {"none"}) \X Endings \X Nat]
    BY <1>a, <2>1, EndedTyped DEF Endings, Keeps
  <2> QED
    BY <1>0, <1>a, <2>1, <2>2, <2>3, TypedFrom
<1>3. ASSUME NEW p \in Procs, Discovery(p) \/ Denied(p) \/ Rejected(p) PROVE Typed'
  <2>1. /\ Others(p) /\ Calm /\ UNCHANGED salts /\ faults' \in {faults, faults + 1}
        /\ \/ Failed(p, "auth_required") \/ Failed(p, "rejected") \/ Failed(p, "unreachable")
           \/ /\ proc'[p] \in Process /\ Keeps(proc[p], proc'[p]) /\ UNCHANGED told
    BY <1>3, RefusalEffect
  <2>2. UNCHANGED <<accounts, server, kc, stale>>
    BY <2>1 DEF Calm, server
  <2>3. /\ proc'[p] \in Process /\ proc'[p].uid \in {NoId, proc[p].uid}
        /\ told' \in [Procs -> (Commands \cup {"none"}) \X Endings \X Nat]
    BY <1>a, <2>1, FailedTyped DEF Endings, Keeps
  <2> QED
    BY <1>0, <1>a, <2>1, <2>2, <2>3, TypedFrom
<1>4. ASSUME NEW p \in Procs, Accepted(p) PROVE Typed'
  <2>1. /\ Others(p) /\ Sending(p) /\ UNCHANGED <<kc, stale, faults>> /\ salts' \in Nat
        /\ \E a \in Subject(proc[p]) : Serve(proc[p], a) /\ Answered(p, a)
    BY <1>0, <1>4, AcceptedEffect
  <2>2. PICK a \in Subject(proc[p]) : Serve(proc[p], a) /\ Answered(p, a)
    BY <2>1
  <2>3. ServerGrows /\ a \in DOMAIN accounts' /\ DOMAIN accounts \subseteq DOMAIN accounts'
    BY <1>0, <2>1, <2>2, ServeIs DEF ProcessKnown, ServerGrows
  <2>4. /\ proc'[p] \in Process /\ proc'[p].uid \in {NoId, proc[p].uid, a}
        /\ told' \in [Procs -> (Commands \cup {"none"}) \X Endings \X Nat]
    <3>1. CASE Ended(p, "ok")
      BY <3>1, EndedTyped DEF Endings
    <3>2. CASE ~Ended(p, "ok")
      BY <1>a, <2>2, <3>2 DEF Answered, Asks, GivenTokens, Leaves, Keeps
    <3> QED
      BY <3>1, <3>2
  <2> QED
    BY <1>0, <1>a, <2>1, <2>3, <2>4, TypedFrom
<1>5. ASSUME NEW p \in Procs, Lost(p) \/ Refused(p) PROVE Typed'
  <2>1. /\ Others(p) /\ Sending(p) /\ UNCHANGED <<kc, stale, salts>> /\ faults' = faults + 1
        /\ MaybeServed(p)
        /\ \/ Stays(p) /\ UNCHANGED <<lock, told>>
           \/ \E how \in {"auth_required", "unreachable", "incompatible"} : Failed(p, how)
    BY <1>5, LostEffect
  <2>2. (ServerGrows \/ UNCHANGED server) /\ DOMAIN accounts \subseteq DOMAIN accounts'
    BY <1>0, <2>1, ServeIs DEF MaybeServed, ProcessKnown, ServerGrows, server
  <2>3. /\ proc'[p] \in Process /\ proc'[p].uid \in {NoId, proc[p].uid}
        /\ told' \in [Procs -> (Commands \cup {"none"}) \X Endings \X Nat]
    BY <1>a, <2>1, FailedTyped DEF Stays, Keeps, Endings
  <2> QED
    BY <1>0, <1>a, <2>1, <2>2, <2>3, TypedFrom
<1>6. ASSUME NEW p \in Procs, LockRefresh(p) PROVE Typed'
  <2>1. /\ Others(p) /\ Calm /\ UNCHANGED salts /\ faults' \in {faults, faults + 1}
        /\ \/ Failed(p, "auth_required")
           \/ proc'[p] \in Process /\ proc'[p].uid = proc[p].uid /\ UNCHANGED told
    BY <1>6, LockEffect DEF Rereads
  <2>2. UNCHANGED <<accounts, server, kc, stale>>
    BY <2>1 DEF Calm, server
  <2>3. /\ proc'[p] \in Process /\ proc'[p].uid \in {NoId, proc[p].uid}
        /\ told' \in [Procs -> (Commands \cup {"none"}) \X Endings \X Nat]
    BY <1>a, <2>1, FailedTyped DEF Endings
  <2> QED
    BY <1>0, <1>a, <2>1, <2>2, <2>3, TypedFrom
<1>7. ASSUME NEW p \in Procs, Persist(p) \/ KeepTokens(p) \/ Forget(p) PROVE Typed'
  <2>1. /\ Others(p) /\ UNCHANGED <<server, stale, salts>> /\ faults' \in {faults, faults + 1}
        /\ Stores(p) \/ Clears(p) \/ UNCHANGED kc
        /\ \/ Ended(p, "ok") \/ Ended(p, "keychain") \/ Failed(p, "auth_required")
           \/ proc'[p] \in Process /\ Keeps(proc[p], proc'[p]) /\ UNCHANGED told
    BY <1>0, <1>7, PersistEffect, KeepEffect, ForgetEffect DEF Advances
  <2>2. UNCHANGED accounts
    BY <2>1 DEF server
  <2>3. /\ proc'[p] \in Process /\ proc'[p].uid \in {NoId, proc[p].uid}
        /\ told' \in [Procs -> (Commands \cup {"none"}) \X Endings \X Nat]
    BY <1>a, <2>1, EndedTyped, FailedTyped DEF Endings, Keeps
  <2>4. kc' \in Keychain /\ kc'.cur \in {NoId, kc.cur, proc[p].uid}
    BY <1>a, <2>1 DEF Stores, Clears
  <2> QED
    BY <1>0, <1>a, <2>1, <2>2, <2>3, <2>4, TypedFrom
<1>8. ASSUME NEW p \in Procs, Crash(p) PROVE Typed'
  <2>1. /\ Others(p) /\ UNCHANGED <<server, kc, stale, salts>> /\ faults' = faults + 1
        /\ Ended(p, "died")
    BY <1>8, CrashEffect
  <2>2. UNCHANGED accounts
    BY <2>1 DEF server
  <2>3. /\ proc'[p] \in Process /\ proc'[p].uid = NoId
        /\ told' \in [Procs -> (Commands \cup {"none"}) \X Endings \X Nat]
    BY <2>1, EndedTyped DEF Endings
  <2> QED
    BY <1>a, <2>1, <2>2, <2>3, TypedFrom
<1>9. ASSUME NEW n \in goodAT, Expire(n) \/ Skew(n) PROVE Typed'
  BY <1>9 DEF Expire, Skew, Fault, ghosts, counters, Typed
<1>10. CASE UNCHANGED vars
  BY <1>10 DEF vars, server, counters, ghosts, Typed
<1> QED
  BY <1>1, <1>2, <1>3, <1>4, <1>5, <1>6, <1>7, <1>8, <1>9, <1>10 DEF Next, Step

-----------------------------------------------------------------------------
(* Tokens belong to the account they are kept for *)

\* A token keeps its owner.
OwnersKept == \A n \in DOMAIN owner : n \in DOMAIN owner' /\ owner'[n] = owner[n]

\* The parts of TokensOwned that a step of p has to establish.
LEMMA OwnedFrom ==
  ASSUME TokensOwned, NEW p \in Procs, Others(p), OwnersKept,
         \A a \in Ids : /\ kc'.rt[a] = kc.rt[a] \/ TokenOf(kc.rt[a], a)'
                        /\ kc'.at[a] = kc.at[a] \/ TokenOf(kc.at[a], a)'
                        /\ kc'.dek[a] \in {kc.dek[a], NoId, a},
         TokenOf(proc[p].rt, proc[p].uid)', TokenOf(proc[p].at, proc[p].uid)'
  PROVE  TokensOwned'
<1>1. \A a \in Ids : (TokenOf(kc.rt[a], a) /\ TokenOf(kc.at[a], a) /\ kc.dek[a] \in {NoId, a})'
  BY DEF TokensOwned, TokenOf, OwnersKept
<1>2. \A q \in Procs : (TokenOf(proc[q].rt, proc[q].uid) /\ TokenOf(proc[q].at, proc[q].uid))'
  <2>1. \A q \in Procs : q # p => proc'[q] = proc[q]
    BY DEF Others
  <2> QED
    BY <2>1 DEF TokensOwned, TokenOf, OwnersKept
<1> QED
  BY <1>1, <1>2 DEF TokensOwned

\* Every step keeps the tokens apart.
LEMMA OwnedStep ==
  ASSUME Typed, TokensOwned, ProcessesKnown, [Next]_vars
  PROVE  TokensOwned'
<1>0. \A p \in Procs : /\ ProcessKnown(proc[p]) /\ proc[p] \in Process
                       /\ proc[p].uid \in {NoId} \cup DOMAIN accounts
                       /\ TokenOf(proc[p].rt, proc[p].uid) /\ TokenOf(proc[p].at, proc[p].uid)
  BY DEF ProcessesKnown, Typed, TokensOwned
<1>a. UNCHANGED owner => OwnersKept
  BY DEF OwnersKept
<1>b. \A a \in Ids : TokenOf(kc.rt[a], a) /\ TokenOf(kc.at[a], a)
  BY DEF TokensOwned
<1>c. ASSUME NEW p \in Procs, OwnersKept, Others(p), UNCHANGED kc,
             \/ proc'[p].rt = NoId /\ proc'[p].at = NoId
             \/ /\ proc'[p].uid = proc[p].uid /\ proc'[p].rt = proc[p].rt
                /\ proc'[p].at = proc[p].at
      PROVE  TokensOwned'
  <2>1. TokenOf(proc[p].rt, proc[p].uid)' /\ TokenOf(proc[p].at, proc[p].uid)'
    BY <1>0, <1>c DEF TokenOf, OwnersKept
  <2> QED
    BY <1>c, <2>1, OwnedFrom
<1>d. \A p \in Procs : \A how : Ended(p, how) => proc'[p].rt = NoId /\ proc'[p].at = NoId
  BY IdleFields DEF Ended
<1>e. \A p \in Procs : \A how : Failed(p, how) =>
         \/ proc'[p].rt = NoId /\ proc'[p].at = NoId
         \/ /\ proc'[p].uid = proc[p].uid /\ proc'[p].rt = proc[p].rt /\ proc'[p].at = proc[p].at
  BY <1>d DEF Failed, Leaves, Keeps
<1>1. ASSUME NEW p \in Procs, NEW x \in Plans, Start(p, x) PROVE TokensOwned'
  <2>1. /\ Others(p) /\ UNCHANGED <<owner, kc>>
        /\ \/ proc'[p].uid = NoId /\ proc'[p].rt = NoId /\ proc'[p].at = NoId
           \/ /\ kc.cur # NoId /\ proc'[p].uid = kc.cur /\ proc'[p].rt = kc.rt[kc.cur]
              /\ kc.rt[kc.cur] # NoId /\ proc'[p].at \in {NoId, kc.at[kc.cur]}
    BY <1>1, StartEffect DEF Calm, server
  <2>2. kc.cur # NoId => kc.cur \in Ids
    BY AccountsAreIds DEF Typed
  <2>3. TokenOf(proc[p].rt, proc[p].uid)' /\ TokenOf(proc[p].at, proc[p].uid)'
    BY <1>b, <2>1, <2>2 DEF TokenOf
  <2> QED
    BY <1>a, <2>1, <2>3, OwnedFrom
<1>2. ASSUME NEW p \in Procs,
             BeginStatus(p) \/ BeginPush(p) \/ BeginLogin(p) \/ BeginSignup(p) \/ BeginLeave(p)
      PROVE  TokensOwned'
  <2>1. /\ Others(p) /\ Calm
        /\ \/ Ended(p, "signed_out") \/ Ended(p, "no_keys") \/ Ended(p, "no_recovery_file")
           \/ Keeps(proc[p], proc'[p])
    BY <1>2, StatusEffect, PushEffect, LoginEffect, SignupEffect, LeaveEffect DEF Asks, Leaves
  <2>2. UNCHANGED <<owner, kc>>
    BY <2>1 DEF Calm, server
  <2> QED
    BY <1>a, <1>c, <1>d, <2>1, <2>2 DEF Keeps
<1>3. ASSUME NEW p \in Procs, Discovery(p) \/ Denied(p) \/ Rejected(p) PROVE TokensOwned'
  <2>1. /\ Others(p) /\ Calm
        /\ \/ Failed(p, "auth_required") \/ Failed(p, "rejected") \/ Failed(p, "unreachable")
           \/ Keeps(proc[p], proc'[p])
    BY <1>3, RefusalEffect
  <2>2. UNCHANGED <<owner, kc>>
    BY <2>1 DEF Calm, server
  <2> QED
    BY <1>a, <1>c, <1>e, <2>1, <2>2 DEF Keeps
<1>4. ASSUME NEW p \in Procs, Accepted(p) PROVE TokensOwned'
  <2>1. /\ Others(p) /\ Sending(p) /\ UNCHANGED kc
        /\ \E a \in Subject(proc[p]) : Serve(proc[p], a) /\ Answered(p, a)
    BY <1>0, <1>4, AcceptedEffect
  <2>2. PICK a \in Subject(proc[p]) : Serve(proc[p], a) /\ Answered(p, a)
    BY <2>1
  <2>3. /\ OwnersKept
        /\ Request(proc[p]) \in {"signup", "login", "finalize", "refresh"} => Minted(a)
    BY <1>0, <2>1, <2>2, ServeIs DEF ProcessKnown, ServerGrows, OwnersKept
  <2>4. CASE proc[p].pc = "send" /\ GivenTokens(p, a, "persist")
             /\ proc[p].req \in {"login", "signup", "finalize"}
    <3>1. owner'[Fresh] = a /\ Fresh \in DOMAIN owner'
      BY <2>3, <2>4 DEF Request, Minted
    <3>2. TokenOf(proc[p].rt, proc[p].uid)' /\ TokenOf(proc[p].at, proc[p].uid)'
      BY <2>4, <3>1 DEF GivenTokens, TokenOf
    <3> QED
      BY <2>1, <2>3, <3>2, OwnedFrom
  <2>5. CASE proc[p].pc = "rotate" /\ GivenTokens(p, proc[p].uid, "keep")
    <3>1. owner'[Fresh] = a /\ Fresh \in DOMAIN owner'
      BY <2>3, <2>5 DEF Request, Minted
    <3>2. a = owner[proc[p].rt] /\ proc[p].rt # NoId
      BY <1>0, <2>1, <2>2, <2>5, SubjectIs DEF ProcessKnown, Request
    <3>3. a = proc[p].uid
      BY <1>0, <3>2 DEF TokenOf
    <3>4. TokenOf(proc[p].rt, proc[p].uid)' /\ TokenOf(proc[p].at, proc[p].uid)'
      BY <2>5, <3>1, <3>3 DEF GivenTokens, TokenOf
    <3> QED
      BY <2>1, <2>3, <3>4, OwnedFrom
  <2>6. CASE Ended(p, "ok") \/ Keeps(proc[p], proc'[p])
    BY <1>c, <1>d, <2>1, <2>3, <2>6 DEF Keeps
  <2> QED
    BY <2>2, <2>4, <2>5, <2>6 DEF Answered, Asks, Leaves
<1>5. ASSUME NEW p \in Procs, Lost(p) \/ Refused(p) PROVE TokensOwned'
  <2>1. /\ Others(p) /\ Sending(p) /\ UNCHANGED kc /\ MaybeServed(p)
        /\ \/ Stays(p) /\ UNCHANGED <<lock, told>>
           \/ \E how \in {"auth_required", "unreachable", "incompatible"} : Failed(p, how)
    BY <1>5, LostEffect
  <2>2. OwnersKept
    BY <1>0, <1>a, <2>1, ServeIs DEF MaybeServed, ProcessKnown, ServerGrows, server, OwnersKept
  <2> QED
    BY <1>c, <1>e, <2>1, <2>2 DEF Stays, Keeps
<1>6. ASSUME NEW p \in Procs, LockRefresh(p) PROVE TokensOwned'
  <2>1. Others(p) /\ Calm /\ (Failed(p, "auth_required") \/ Rereads(p))
    BY <1>6, LockEffect
  <2>2. UNCHANGED <<owner, kc>>
    BY <2>1 DEF Calm, server
  <2>3. CASE Rereads(p)
    <3>1. proc[p].uid # NoId => proc[p].uid \in Ids
      BY <1>0, AccountsAreIds
    <3>2. TokenOf(proc[p].rt, proc[p].uid)' /\ TokenOf(proc[p].at, proc[p].uid)'
      BY <1>0, <1>b, <2>2, <2>3, <3>1 DEF Rereads, TokenOf
    <3> QED
      BY <1>a, <2>1, <2>2, <3>2, OwnedFrom
  <2> QED
    BY <1>a, <1>c, <1>e, <2>1, <2>2, <2>3
<1>7. ASSUME NEW p \in Procs, Persist(p) \/ KeepTokens(p) \/ Forget(p) PROVE TokensOwned'
  <2>1. /\ Others(p) /\ UNCHANGED server
        /\ \/ Stores(p) /\ proc[p].pc \in {"persist", "keep"}
           \/ Clears(p)
           \/ UNCHANGED kc
        /\ \/ Ended(p, "ok") \/ Ended(p, "keychain") \/ Failed(p, "auth_required")
           \/ Keeps(proc[p], proc'[p])
    BY <1>0, <1>7, PersistEffect, KeepEffect, ForgetEffect DEF Advances
  <2>2. UNCHANGED owner /\ OwnersKept
    BY <1>a, <2>1 DEF server
  <2>3. TokenOf(proc[p].rt, proc[p].uid)' /\ TokenOf(proc[p].at, proc[p].uid)'
    BY <1>0, <1>d, <1>e, <2>1, <2>2 DEF TokenOf, Keeps
  <2>4. CASE Stores(p) /\ proc[p].pc \in {"persist", "keep"}
    <3>1. proc[p].uid \in Ids
      BY <1>0, <2>4, HolderIsAccount DEF ProcessKnown
    <3>2. kc.rt \in [Ids -> Nat] /\ kc.at \in [Ids -> Nat] /\ kc.dek \in [Ids -> Nat]
      BY DEF Typed, Keychain
    <3>3. \A a \in Ids : /\ kc'.rt[a] = kc.rt[a] \/ (a = proc[p].uid /\ kc'.rt[a] = proc[p].rt)
                         /\ kc'.at[a] = kc.at[a] \/ (a = proc[p].uid /\ kc'.at[a] = proc[p].at)
                         /\ kc'.dek[a] \in {kc.dek[a], NoId, a}
      BY <2>4, <3>1, <3>2 DEF Stores
    <3>4. \A a \in Ids : /\ kc'.rt[a] = kc.rt[a] \/ TokenOf(kc.rt[a], a)'
                         /\ kc'.at[a] = kc.at[a] \/ TokenOf(kc.at[a], a)'
                         /\ kc'.dek[a] \in {kc.dek[a], NoId, a}
      BY <1>0, <2>2, <3>3 DEF TokenOf
    <3> QED
      BY <2>1, <2>2, <2>3, <3>4, OwnedFrom
  <2>5. CASE Clears(p) \/ UNCHANGED kc
    <3>1. \A a \in Ids : /\ kc'.rt[a] = kc.rt[a] \/ TokenOf(kc.rt[a], a)'
                         /\ kc'.at[a] = kc.at[a] \/ TokenOf(kc.at[a], a)'
                         /\ kc'.dek[a] \in {kc.dek[a], NoId, a}
      BY <2>5 DEF Clears, TokenOf
    <3> QED
      BY <2>1, <2>2, <2>3, <3>1, OwnedFrom
  <2> QED
    BY <2>1, <2>4, <2>5
<1>8. ASSUME NEW p \in Procs, Crash(p) PROVE TokensOwned'
  <2>1. Others(p) /\ UNCHANGED <<owner, kc>> /\ Ended(p, "died")
    BY <1>8, CrashEffect DEF server
  <2> QED
    BY <1>a, <1>c, <1>d, <2>1
<1>9. ASSUME NEW n \in goodAT, Expire(n) \/ Skew(n) PROVE TokensOwned'
  BY <1>9 DEF Expire, Skew, TokensOwned, TokenOf
<1>10. CASE UNCHANGED vars
  BY <1>10 DEF vars, server, TokensOwned, TokenOf
<1> QED
  BY <1>1, <1>2, <1>3, <1>4, <1>5, <1>6, <1>7, <1>8, <1>9, <1>10 DEF Next, Step

-----------------------------------------------------------------------------
(* Where a process can be *)

\* An empty process, one that starts to forget, and one that asks are known.
LEMMA KnownFrom ==
  ASSUME Typed, TokensOwned, NEW p \in Procs, ProcessKnown(proc[p])
  PROVE  /\ \A how : Ended(p, how) => ProcessKnown(proc'[p])
         /\ Leaves(p) /\ proc[p].cmd \in {"logout", "delete"} => ProcessKnown(proc'[p])
         /\ \A how : Failed(p, how) => ProcessKnown(proc'[p])
<1>1. ASSUME NEW how, Ended(p, how) PROVE ProcessKnown(proc'[p])
  BY <1>1, IdleFields DEF Ended, ProcessKnown
<1>2. ASSUME Leaves(p), proc[p].cmd \in {"logout", "delete"} PROVE ProcessKnown(proc'[p])
  <2>1. /\ proc'[p].pc = "forget" /\ proc'[p].cmd \in {"logout", "delete"}
        /\ proc'[p].step \in 1..5 /\ (proc'[p].uid = NoId => proc'[p].step = 5)
        /\ (proc'[p].uid # NoId => proc'[p].rt # NoId)
    BY <1>2 DEF Leaves, Keeps, ProcessKnown
  <2> QED
    BY <2>1 DEF ProcessKnown
<1> QED
  BY <1>1, <1>2 DEF Failed

\* A process that makes, or repeats, a request of its command is known.
LEMMA AskingKnown ==
  ASSUME NEW s, s.pc \in {"send", "lock", "rotate"}, RequestFits(s), s.uid # NoId => s.rt # NoId,
         s.pc = "rotate" => s.rt # NoId, s.cmd \in {"status", "push"} => s.uid # NoId,
         s.cmd = "push" => s.got = s.uid
  PROVE  ProcessKnown(s)
BY DEF ProcessKnown

\* Every step keeps the processes known.
LEMMA KnownStep ==
  ASSUME Typed, TokensOwned, ProcessesKnown, [Next]_vars
  PROVE  ProcessesKnown'
<1>0. \A p \in Procs : /\ ProcessKnown(proc[p]) /\ proc[p] \in Process
                       /\ proc[p].uid \in {NoId} \cup DOMAIN accounts
                       /\ TokenOf(proc[p].rt, proc[p].uid) /\ TokenOf(proc[p].at, proc[p].uid)
  BY DEF ProcessesKnown, Typed, TokensOwned
<1>a. ASSUME NEW p \in Procs, Others(p), ProcessKnown(proc'[p]) PROVE ProcessesKnown'
  <2>1. \A q \in Procs : q # p => proc'[q] = proc[q]
    BY <1>a DEF Others
  <2>2. \A q \in Procs : ProcessKnown(proc'[q])
    BY <1>0, <1>a, <2>1
  <2> QED
    BY <2>2 DEF ProcessesKnown, ProcessKnown, RequestFits
<1>1. ASSUME NEW p \in Procs, NEW x \in Plans, Start(p, x) PROVE ProcessesKnown'
  <2>1. Others(p) /\ proc'[p].pc = "begin" /\ (proc'[p].uid # NoId => proc'[p].rt # NoId)
    BY <1>1, StartEffect
  <2> QED
    BY <1>a, <2>1 DEF ProcessKnown
<1>2. ASSUME NEW p \in Procs, BeginStatus(p) PROVE ProcessesKnown'
  <2>1. Others(p) /\ proc[p].cmd = "status"
        /\ (Ended(p, "signed_out") \/ (Asks(p, "me") /\ proc[p].rt # NoId))
    BY <1>2, StatusEffect
  <2>2. CASE Asks(p, "me") /\ proc[p].rt # NoId
    <3>1. proc[p].uid # NoId
      BY <2>2, HolderIsAccount
    <3>2. /\ proc'[p].pc = "send" /\ proc'[p].cmd = "status" /\ proc'[p].req = "me"
          /\ proc'[p].uid # NoId /\ proc'[p].rt # NoId
      BY <2>1, <2>2, <3>1 DEF Asks, Keeps
    <3> QED
      BY <1>a, <2>1, <3>2, AskingKnown DEF RequestFits
  <2> QED
    BY <1>0, <1>a, <2>1, <2>2, KnownFrom
<1>3. ASSUME NEW p \in Procs, BeginPush(p) PROVE ProcessesKnown'
  <2>1. /\ Others(p) /\ proc[p].cmd = "push"
        /\ \/ Ended(p, "no_keys")
           \/ /\ Asks(p, "post") /\ proc[p].uid \in Ids
              /\ proc'[p].got = kc.dek[proc[p].uid] /\ kc.dek[proc[p].uid] # NoId
    BY <1>3, PushEffect
  <2>2. CASE ~Ended(p, "no_keys")
    <3>1. proc'[p].got = proc[p].uid /\ proc[p].uid # NoId
      BY <2>1, <2>2 DEF TokensOwned, Ids, NoId
    <3>2. /\ proc'[p].pc = "send" /\ proc'[p].cmd = "push" /\ proc'[p].req = "post"
          /\ proc'[p].uid # NoId /\ proc'[p].rt # NoId /\ proc'[p].got = proc'[p].uid
      BY <1>0, <2>1, <2>2, <3>1 DEF Asks, Keeps, ProcessKnown
    <3> QED
      BY <1>a, <2>1, <3>2, AskingKnown DEF RequestFits
  <2> QED
    BY <1>0, <1>a, <2>1, <2>2, KnownFrom
<1>4. ASSUME NEW p \in Procs, BeginLogin(p) \/ BeginSignup(p) \/ BeginLeave(p) PROVE ProcessesKnown'
  <2>1. /\ Others(p)
        /\ \/ Ended(p, "no_recovery_file")
           \/ Asks(p, "pre") /\ proc[p].cmd \in {"login", "recover"}
           \/ Asks(p, "signup") /\ proc[p].cmd = "signup"
           \/ Asks(p, proc[p].cmd) /\ proc[p].cmd \in {"logout", "delete"}
           \/ Leaves(p) /\ proc[p].cmd \in {"logout", "delete"}
    BY <1>4, LoginEffect, SignupEffect, LeaveEffect
  <2>2. CASE \/ Asks(p, "pre") /\ proc[p].cmd \in {"login", "recover"}
             \/ Asks(p, "signup") /\ proc[p].cmd = "signup"
             \/ Asks(p, proc[p].cmd) /\ proc[p].cmd \in {"logout", "delete"}
    <3>1. /\ proc'[p].pc = "send" /\ (proc'[p].uid # NoId => proc'[p].rt # NoId)
          /\ \/ proc'[p].cmd \in {"login", "recover"} /\ proc'[p].req = "pre"
             \/ proc'[p].cmd = "signup" /\ proc'[p].req = "signup"
             \/ proc'[p].cmd \in {"logout", "delete"} /\ proc'[p].req = proc'[p].cmd
      BY <1>0, <2>2 DEF Asks, Keeps, ProcessKnown
    <3> QED
      BY <1>a, <2>1, <3>1, AskingKnown DEF RequestFits
  <2> QED
    BY <1>0, <1>a, <2>1, <2>2, KnownFrom
<1>5. ASSUME NEW p \in Procs, Discovery(p) \/ Denied(p) \/ Rejected(p) PROVE ProcessesKnown'
  <2>1. /\ Others(p)
        /\ \/ Failed(p, "auth_required") \/ Failed(p, "rejected") \/ Failed(p, "unreachable")
           \/ /\ MayRefresh(proc[p]) /\ Keeps(proc[p], proc'[p]) /\ proc'[p].pc = "lock"
              /\ proc'[p].req = proc[p].req /\ proc'[p].got = proc[p].got
    BY <1>5, RefusalEffect
  <2>2. CASE /\ MayRefresh(proc[p]) /\ Keeps(proc[p], proc'[p]) /\ proc'[p].pc = "lock"
             /\ proc'[p].req = proc[p].req /\ proc'[p].got = proc[p].got
    <3>1. RequestFits(proc'[p])
      BY <1>0, <2>2 DEF MayRefresh, Keeps, ProcessKnown, RequestFits
    <3> QED
      BY <1>0, <1>a, <2>1, <2>2, <3>1, AskingKnown DEF MayRefresh, Keeps, ProcessKnown
  <2> QED
    BY <1>0, <1>a, <2>1, <2>2, KnownFrom
<1>6. ASSUME NEW p \in Procs, Accepted(p) PROVE ProcessesKnown'
  <2>1. /\ Others(p) /\ Sending(p)
        /\ \E a \in Subject(proc[p]) : Serve(proc[p], a) /\ Answered(p, a)
    BY <1>0, <1>6, AcceptedEffect
  <2>2. PICK a \in Subject(proc[p]) : Serve(proc[p], a) /\ Answered(p, a)
    BY <2>1
  <2>3. RequestFits(proc[p])
    BY <1>0, <2>1 DEF ProcessKnown, Sending
  <2>4. Fresh # NoId
    BY AccountsAreIds DEF Fresh, NoId
  <2>5. CASE proc[p].req = "pre" /\ Asks(p, proc[p].cmd)
    <3>1. /\ proc'[p].pc = "send" /\ (proc'[p].uid # NoId => proc'[p].rt # NoId)
          /\ proc'[p].cmd \in {"login", "recover"} /\ proc'[p].req = proc'[p].cmd
      BY <1>0, <2>3, <2>5 DEF Asks, Keeps, ProcessKnown, RequestFits
    <3> QED
      BY <1>a, <2>1, <3>1, AskingKnown DEF RequestFits
  <2>6. CASE proc[p].req = "recover" /\ Asks(p, "finalize")
    <3>1. /\ proc'[p].pc = "send" /\ (proc'[p].uid # NoId => proc'[p].rt # NoId)
          /\ proc'[p].cmd = "recover" /\ proc'[p].req = "finalize"
      BY <1>0, <2>3, <2>6 DEF Asks, Keeps, ProcessKnown, RequestFits
    <3> QED
      BY <1>a, <2>1, <3>1, AskingKnown DEF RequestFits
  <2>7. CASE proc[p].req \in {"login", "signup", "finalize"} /\ GivenTokens(p, a, "persist")
    <3>1. /\ proc'[p].pc = "persist" /\ proc'[p].rt # NoId /\ proc'[p].at # NoId
          /\ proc'[p].step \in 1..5 /\ proc'[p].cmd \in {"login", "recover", "signup"}
      BY <2>3, <2>4, <2>7 DEF GivenTokens, RequestFits
    <3>2. ProcessKnown(proc'[p])
      BY <3>1 DEF ProcessKnown
    <3> QED
      BY <1>a, <2>1, <3>2
  <2>8. CASE proc[p].pc = "rotate" /\ GivenTokens(p, proc[p].uid, "keep")
    <3>1. /\ proc'[p].pc = "keep" /\ proc'[p].rt # NoId /\ proc'[p].at # NoId
          /\ proc'[p].step \in 1..3 /\ proc'[p].cmd = proc[p].cmd /\ proc'[p].req = proc[p].req
          /\ proc'[p].uid = proc[p].uid /\ proc'[p].got = proc[p].got
      BY <2>4, <2>8 DEF GivenTokens
    <3>2. RequestFits(proc'[p])
      BY <2>3, <3>1 DEF RequestFits
    <3>3. ProcessKnown(proc'[p])
      BY <1>0, <2>8, <3>1, <3>2 DEF ProcessKnown
    <3> QED
      BY <1>a, <2>1, <3>3
  <2>9. CASE proc[p].req \in {"logout", "delete"} /\ Leaves(p)
    <3>1. proc[p].cmd \in {"logout", "delete"}
      BY <2>3, <2>9 DEF RequestFits
    <3> QED
      BY <1>0, <1>a, <2>1, <2>9, <3>1, KnownFrom
  <2>10. CASE Ended(p, "ok")
    BY <1>0, <1>a, <2>1, <2>10, KnownFrom
  <2> QED
    BY <2>2, <2>5, <2>6, <2>7, <2>8, <2>9, <2>10 DEF Answered
<1>7. ASSUME NEW p \in Procs, Lost(p) \/ Refused(p) PROVE ProcessesKnown'
  <2>1. /\ Others(p)
        /\ \/ Stays(p)
           \/ \E how \in {"auth_required", "unreachable", "incompatible"} : Failed(p, how)
    BY <1>7, LostEffect
  <2>2. CASE Stays(p)
    <3>1. ProcessKnown(proc'[p])
      BY <1>0, <2>2 DEF Stays, Keeps, ProcessKnown, RequestFits
    <3> QED
      BY <1>a, <2>1, <3>1
  <2> QED
    BY <1>0, <1>a, <2>1, <2>2, KnownFrom
<1>8. ASSUME NEW p \in Procs, LockRefresh(p) PROVE ProcessesKnown'
  <2>1. /\ Others(p) /\ proc[p].pc = "lock"
        /\ \/ Failed(p, "auth_required")
           \/ /\ Rereads(p) /\ proc'[p].pc \in {"send", "rotate"}
              /\ proc'[p].pc = "rotate" => proc'[p].rt # NoId
    BY <1>8, LockEffect
  <2>2. CASE /\ Rereads(p) /\ proc'[p].pc \in {"send", "rotate"}
             /\ proc'[p].pc = "rotate" => proc'[p].rt # NoId
    <3>1. RequestFits(proc'[p])
      BY <1>0, <2>1, <2>2 DEF Rereads, ProcessKnown, RequestFits
    <3>2. /\ proc'[p].uid # NoId => proc'[p].rt # NoId
          /\ proc'[p].cmd \in {"status", "push"} => proc'[p].uid # NoId
          /\ proc'[p].cmd = "push" => proc'[p].got = proc'[p].uid
      BY <1>0, <2>1, <2>2 DEF Rereads, ProcessKnown
    <3> QED
      BY <1>a, <2>1, <2>2, <3>1, <3>2, AskingKnown
  <2> QED
    BY <1>0, <1>a, <2>1, <2>2, KnownFrom
<1>9. ASSUME NEW p \in Procs, Persist(p) PROVE ProcessesKnown'
  <2>1. /\ Others(p) /\ proc[p].pc = "persist"
        /\ \/ Ended(p, "ok") \/ Ended(p, "keychain")
           \/ Advances(p) /\ proc[p].step < 5
    BY <1>0, <1>9, PersistEffect
  <2>2. CASE Advances(p) /\ proc[p].step < 5
    <3>1. ProcessKnown(proc'[p])
      BY <1>0, <2>1, <2>2 DEF Advances, Keeps, ProcessKnown
    <3> QED
      BY <1>a, <2>1, <3>1
  <2> QED
    BY <1>0, <1>a, <2>1, <2>2, KnownFrom
<1>10. ASSUME NEW p \in Procs, KeepTokens(p) PROVE ProcessesKnown'
  <2>1. /\ Others(p) /\ proc[p].pc = "keep"
        /\ \/ Failed(p, "auth_required")
           \/ Advances(p) /\ proc[p].step < 3
           \/ /\ Keeps(proc[p], proc'[p]) /\ proc'[p].pc = "send"
              /\ proc'[p].req = proc[p].req /\ proc'[p].got = proc[p].got
    BY <1>0, <1>10, KeepEffect
  <2>2. CASE Advances(p) /\ proc[p].step < 3
    <3>1. RequestFits(proc'[p])
      BY <1>0, <2>1, <2>2 DEF Advances, Keeps, ProcessKnown, RequestFits
    <3>2. ProcessKnown(proc'[p])
      BY <1>0, <2>1, <2>2, <3>1 DEF Advances, Keeps, ProcessKnown
    <3> QED
      BY <1>a, <2>1, <3>2
  <2>3. CASE /\ Keeps(proc[p], proc'[p]) /\ proc'[p].pc = "send"
             /\ proc'[p].req = proc[p].req /\ proc'[p].got = proc[p].got
    <3>1. RequestFits(proc'[p])
      BY <1>0, <2>1, <2>3 DEF Keeps, ProcessKnown, RequestFits
    <3>2. ProcessKnown(proc'[p])
      BY <1>0, <2>1, <2>3, <3>1 DEF Keeps, ProcessKnown
    <3> QED
      BY <1>a, <2>1, <3>2
  <2> QED
    BY <1>0, <1>a, <2>1, <2>2, <2>3, KnownFrom
<1>11. ASSUME NEW p \in Procs, Forget(p) PROVE ProcessesKnown'
  <2>1. /\ Others(p) /\ proc[p].pc = "forget"
        /\ \/ \E how \in {"ok", "keychain"} : Ended(p, how)
           \/ Advances(p) /\ proc[p].step < 5
    BY <1>0, <1>11, ForgetEffect
  <2>2. CASE Advances(p) /\ proc[p].step < 5
    <3>1. ProcessKnown(proc'[p])
      BY <1>0, <2>1, <2>2 DEF Advances, Keeps, ProcessKnown
    <3> QED
      BY <1>a, <2>1, <3>1
  <2> QED
    BY <1>0, <1>a, <2>1, <2>2, KnownFrom
<1>12. ASSUME NEW p \in Procs, Crash(p) PROVE ProcessesKnown'
  <2>1. Others(p) /\ Ended(p, "died")
    BY <1>12, CrashEffect
  <2> QED
    BY <1>0, <1>a, <2>1, KnownFrom
<1>13. CASE UNCHANGED proc
  BY <1>13 DEF ProcessesKnown, ProcessKnown, RequestFits
<1> QED
  BY <1>1, <1>2, <1>3, <1>4, <1>5, <1>6, <1>7, <1>8, <1>9, <1>10, <1>11, <1>12, <1>13
     DEF Next, Step, Expire, Skew, vars

-----------------------------------------------------------------------------
(* The refresh lock *)

\* A step of p that drops, keeps or takes the lock as it should.
LEMMA LockFrom ==
  ASSUME LockIsHeld, NEW p \in Procs, Others(p),
         \/ lock' = (IF lock = p THEN None ELSE lock) /\ proc'[p].pc \notin {"rotate", "keep"}
         \/ lock' = lock /\ (proc'[p].pc \in {"rotate", "keep"} <=> proc[p].pc \in {"rotate", "keep"})
         \/ lock = None /\ lock' = p /\ proc'[p].pc = "rotate"
  PROVE  LockIsHeld'
<1>1. \A q \in Procs : q # p => proc'[q] = proc[q]
  BY DEF Others
<1> QED
  BY <1>1, SessionBounds DEF LockIsHeld

\* Every step keeps the lock with the process that rotates or keeps a token.
LEMMA LockStep ==
  ASSUME Typed, TokensOwned, ProcessesKnown, LockIsHeld, [Next]_vars
  PROVE  LockIsHeld'
<1>0. \A p \in Procs : ProcessKnown(proc[p])
  BY DEF ProcessesKnown
<1>a. \A p \in Procs : \A how : Ended(p, how) =>
         lock' = (IF lock = p THEN None ELSE lock) /\ proc'[p].pc \notin {"rotate", "keep"}
  BY IdleFields DEF Ended
<1>b. \A p \in Procs : \A how : Failed(p, how) =>
         lock' = (IF lock = p THEN None ELSE lock) /\ proc'[p].pc \notin {"rotate", "keep"}
  BY <1>a DEF Failed, Leaves
<1>1. ASSUME NEW p \in Procs, NEW x \in Plans, Start(p, x) PROVE LockIsHeld'
  BY <1>1, StartEffect, LockFrom
<1>2. ASSUME NEW p \in Procs,
             BeginStatus(p) \/ BeginPush(p) \/ BeginLogin(p) \/ BeginSignup(p) \/ BeginLeave(p)
      PROVE  LockIsHeld'
  <2>1. /\ Others(p) /\ proc[p].pc = "begin"
        /\ \/ Ended(p, "signed_out") \/ Ended(p, "no_keys") \/ Ended(p, "no_recovery_file")
           \/ proc'[p].pc \in {"send", "forget"} /\ UNCHANGED lock
    BY <1>2, StatusEffect, PushEffect, LoginEffect, SignupEffect, LeaveEffect DEF Asks, Leaves
  <2> QED
    BY <1>a, <2>1, LockFrom
<1>3. ASSUME NEW p \in Procs, Discovery(p) \/ Denied(p) \/ Rejected(p) PROVE LockIsHeld'
  <2>1. /\ Others(p)
        /\ \/ Failed(p, "auth_required") \/ Failed(p, "rejected") \/ Failed(p, "unreachable")
           \/ proc'[p].pc = "lock" /\ proc[p].pc = "send" /\ UNCHANGED lock
    BY <1>3, RefusalEffect DEF MayRefresh
  <2> QED
    BY <1>b, <2>1, LockFrom
<1>4. ASSUME NEW p \in Procs, Accepted(p) PROVE LockIsHeld'
  <2>1. Others(p) /\ \E a \in Subject(proc[p]) : Serve(proc[p], a) /\ Answered(p, a)
    BY <1>0, <1>4, AcceptedEffect
  <2>2. \/ Ended(p, "ok")
        \/ /\ UNCHANGED lock
           /\ \/ proc[p].pc = "send" /\ proc'[p].pc \in {"send", "persist", "forget"}
              \/ proc[p].pc = "rotate" /\ proc'[p].pc = "keep"
    BY <2>1 DEF Answered, Asks, GivenTokens, Leaves
  <2> QED
    BY <1>a, <2>1, <2>2, LockFrom
<1>5. ASSUME NEW p \in Procs, Lost(p) \/ Refused(p) PROVE LockIsHeld'
  <2>1. /\ Others(p)
        /\ \/ proc'[p].pc = proc[p].pc /\ UNCHANGED lock
           \/ \E how \in {"auth_required", "unreachable", "incompatible"} : Failed(p, how)
    BY <1>5, LostEffect DEF Stays
  <2> QED
    BY <1>b, <2>1, LockFrom
<1>6. ASSUME NEW p \in Procs, LockRefresh(p) PROVE LockIsHeld'
  <2>1. /\ Others(p) /\ proc[p].pc = "lock" /\ lock = None
        /\ \/ Failed(p, "auth_required")
           \/ proc'[p].pc = "send" /\ UNCHANGED lock
           \/ proc'[p].pc = "rotate" /\ lock' = p
    BY <1>6, LockEffect
  <2> QED
    BY <1>b, <2>1, LockFrom
<1>7. ASSUME NEW p \in Procs, Persist(p) \/ KeepTokens(p) \/ Forget(p) PROVE LockIsHeld'
  <2>1. /\ Others(p)
        /\ \/ Ended(p, "ok") \/ Ended(p, "keychain") \/ Failed(p, "auth_required")
           \/ UNCHANGED lock /\ proc'[p].pc = proc[p].pc
           \/ lock' = (IF lock = p THEN None ELSE lock) /\ proc'[p].pc = "send"
    BY <1>0, <1>7, PersistEffect, KeepEffect, ForgetEffect DEF Advances
  <2> QED
    BY <1>a, <1>b, <2>1, LockFrom
<1>8. ASSUME NEW p \in Procs, Crash(p) PROVE LockIsHeld'
  BY <1>8, <1>a, CrashEffect, LockFrom
<1>9. CASE UNCHANGED <<proc, lock>>
  BY <1>9 DEF LockIsHeld
<1> QED
  BY <1>1, <1>2, <1>3, <1>4, <1>5, <1>6, <1>7, <1>8, <1>9 DEF Next, Step, Expire, Skew, vars

-----------------------------------------------------------------------------
(* A process that leaves an account has said so *)

Leaving(r) == r.cmd \in {"logout", "delete"} /\ r.pc \notin {"idle", "begin"}

\* A step after which p leaves no account, or leaves the one it left before.
LEMMA LeavingFrom ==
  ASSUME LeavingIsClosed, NEW p \in Procs, Others(p), OwnersKept, closed \subseteq closed',
         \A a \in DOMAIN accounts' : accounts'[a].live \/ a \in closed',
         \/ ~Leaving(proc'[p])
         \/ /\ Leaving(proc[p]) /\ proc'[p].uid = proc[p].uid
            /\ \/ proc'[p].pc = "forget"
               \/ proc[p].pc # "forget" /\ proc'[p].sent = proc[p].sent
         \/ proc'[p].uid \in closed' /\ TokenOf(proc[p].sent, proc[p].uid)'
         \/ proc'[p].uid \in closed' /\ proc'[p].pc = "forget"
  PROVE  LeavingIsClosed'
<1>1. \A q \in Procs : q # p => proc'[q] = proc[q]
  BY DEF Others
<1>2. \A q \in Procs : Leaving(proc[q]) =>
         proc[q].uid \in closed /\ (proc[q].pc # "forget" => TokenOf(proc[q].sent, proc[q].uid))
  BY DEF LeavingIsClosed, Leaving
<1>3. \A q \in Procs : Leaving(proc'[q]) =>
         proc'[q].uid \in closed' /\ (proc'[q].pc # "forget" => TokenOf(proc[q].sent, proc[q].uid)')
  <2>1. ASSUME NEW q \in Procs, q # p, Leaving(proc'[q])
        PROVE  proc'[q].uid \in closed' /\ (proc'[q].pc # "forget" => TokenOf(proc[q].sent, proc[q].uid)')
    BY <1>1, <1>2, <2>1 DEF TokenOf, OwnersKept
  <2>2. ASSUME Leaving(proc'[p])
        PROVE  proc'[p].uid \in closed' /\ (proc'[p].pc # "forget" => TokenOf(proc[p].sent, proc[p].uid)')
    BY <1>2, <2>2 DEF TokenOf, OwnersKept
  <2> QED
    BY <2>1, <2>2
<1> QED
  BY <1>3 DEF LeavingIsClosed, Leaving

\* The account of a request that deletes one is that of its process.
LEMMA DeletesItsOwn ==
  ASSUME Typed, TokensOwned, ProcessesKnown, LeavingIsClosed, NEW p \in Procs, Sending(p),
         NEW a \in Subject(proc[p]), Request(proc[p]) \in {"logout", "delete"}
  PROVE  a = proc[p].uid /\ a \in closed /\ TokenOf(proc[p].sent, a)
<1>1. ProcessKnown(proc[p]) /\ TokenOf(proc[p].at, proc[p].uid) /\ goodAT \subseteq DOMAIN owner
  BY DEF ProcessesKnown, TokensOwned, Typed
<1>2. proc[p].pc = "send" => RequestFits(proc[p])
  BY <1>1 DEF ProcessKnown
<1>3. proc[p].at \in goodAT /\ a = owner[proc[p].at]
  BY <1>2, SubjectIs
<1>4. a = proc[p].uid
  BY <1>1, <1>3, AccountsAreIds DEF TokenOf
<1>5. proc[p].pc = "send" /\ proc[p].req \in {"logout", "delete"}
  BY DEF Request, Sending
<1>6. proc[p].cmd \in {"logout", "delete"}
  BY <1>2, <1>5 DEF RequestFits
<1> QED
  BY <1>4, <1>5, <1>6 DEF LeavingIsClosed

\* What the service does kills an account only once somebody leaves it.
LEMMA DeadIsClosed ==
  ASSUME Typed, TokensOwned, ProcessesKnown, LeavingIsClosed, NEW p \in Procs, Sending(p),
         NEW a \in Subject(proc[p]), Serve(proc[p], a)
  PROVE  (\A b \in DOMAIN accounts' : accounts'[b].live \/ b \in closed) /\ OwnersKept
<1>1. proc[p].pc = "send" => RequestFits(proc[p])
  BY DEF ProcessesKnown, ProcessKnown
<1>2. /\ ServerGrows
      /\ \A b \in DOMAIN accounts :
            accounts'[b].live \/ ~accounts[b].live \/ (Request(proc[p]) = "delete" /\ b = a)
      /\ \A b \in DOMAIN accounts' \ DOMAIN accounts : accounts'[b].live
  BY <1>1, ServeIs
<1>3. \A b \in DOMAIN accounts : accounts[b].live \/ b \in closed
  BY DEF LeavingIsClosed
<1>4. Request(proc[p]) = "delete" => a \in closed
  BY DeletesItsOwn
<1> QED
  BY <1>2, <1>3, <1>4 DEF ServerGrows, OwnersKept

\* Every step keeps it.
LEMMA LeavingStep ==
  ASSUME Typed, TokensOwned, ProcessesKnown, LeavingIsClosed, [Next]_vars
  PROVE  LeavingIsClosed'
<1>0. \A p \in Procs : ProcessKnown(proc[p]) /\ TokenOf(proc[p].rt, proc[p].uid)
  BY DEF ProcessesKnown, TokensOwned
<1>a. UNCHANGED owner => OwnersKept
  BY DEF OwnersKept
<1>b. UNCHANGED accounts /\ closed \subseteq closed'
         => \A a \in DOMAIN accounts' : accounts'[a].live \/ a \in closed'
  BY DEF LeavingIsClosed
<1>c. \A p \in Procs : \A how : Ended(p, how) => ~Leaving(proc'[p])
  BY IdleFields DEF Ended, Leaving
<1>d. \A p \in Procs : \A how : Failed(p, how) /\ proc[p].pc \notin {"idle", "begin"} =>
         \/ ~Leaving(proc'[p])
         \/ Leaving(proc[p]) /\ proc'[p].uid = proc[p].uid /\ proc'[p].pc = "forget"
  BY <1>c DEF Failed, Leaves, Keeps, Leaving
<1>1. ASSUME NEW p \in Procs, NEW x \in Plans, Start(p, x) PROVE LeavingIsClosed'
  <2>1. Others(p) /\ UNCHANGED <<accounts, owner, closed>> /\ proc'[p].pc = "begin"
    BY <1>1, StartEffect DEF Calm, server
  <2> QED
    BY <1>a, <1>b, <2>1, LeavingFrom DEF Leaving
<1>2. ASSUME NEW p \in Procs, BeginStatus(p) \/ BeginPush(p) \/ BeginLogin(p) \/ BeginSignup(p)
      PROVE  LeavingIsClosed'
  <2>1. /\ Others(p) /\ Calm /\ UNCHANGED closed
        /\ \/ Ended(p, "signed_out") \/ Ended(p, "no_keys") \/ Ended(p, "no_recovery_file")
           \/ Keeps(proc[p], proc'[p]) /\ proc[p].cmd \in {"status", "push", "login", "recover", "signup"}
    BY <1>2, StatusEffect, PushEffect, LoginEffect, SignupEffect DEF Asks
  <2>2. UNCHANGED <<accounts, owner>>
    BY <2>1 DEF Calm, server
  <2>3. ~Leaving(proc'[p])
    BY <1>c, <2>1 DEF Keeps, Leaving
  <2> QED
    BY <1>a, <1>b, <2>1, <2>2, <2>3, LeavingFrom
<1>3. ASSUME NEW p \in Procs, BeginLeave(p) PROVE LeavingIsClosed'
  <2>1. /\ Others(p) /\ Calm /\ closed' = closed \cup {proc[p].uid}
        /\ Asks(p, proc[p].cmd) \/ Leaves(p)
    BY <1>3, LeaveEffect
  <2>2. UNCHANGED <<accounts, owner>>
    BY <2>1 DEF Calm, server
  <2>3. \/ proc'[p].uid \in closed' /\ TokenOf(proc[p].sent, proc[p].uid)'
        \/ proc'[p].uid \in closed' /\ proc'[p].pc = "forget"
    BY <1>0, <2>1, <2>2 DEF Asks, Leaves, Keeps, TokenOf
  <2> QED
    BY <1>a, <1>b, <2>1, <2>2, <2>3, LeavingFrom
<1>4. ASSUME NEW p \in Procs, Discovery(p) \/ Denied(p) \/ Rejected(p) PROVE LeavingIsClosed'
  <2>1. /\ Others(p) /\ Calm /\ UNCHANGED closed /\ proc[p].pc \in {"send", "rotate"}
        /\ \/ Failed(p, "auth_required") \/ Failed(p, "rejected") \/ Failed(p, "unreachable")
           \/ /\ Keeps(proc[p], proc'[p]) /\ proc'[p].pc = "lock" /\ proc'[p].sent = proc[p].sent
    BY <1>4, RefusalEffect DEF Sending
  <2>2. UNCHANGED <<accounts, owner>>
    BY <2>1 DEF Calm, server
  <2>3. \/ ~Leaving(proc'[p])
        \/ /\ Leaving(proc[p]) /\ proc'[p].uid = proc[p].uid
           /\ \/ proc'[p].pc = "forget"
              \/ proc[p].pc # "forget" /\ proc'[p].sent = proc[p].sent
    BY <1>d, <2>1 DEF Keeps, Leaving
  <2> QED
    BY <1>a, <1>b, <2>1, <2>2, <2>3, LeavingFrom
<1>5. ASSUME NEW p \in Procs, Accepted(p) PROVE LeavingIsClosed'
  <2>1. /\ Others(p) /\ Sending(p) /\ UNCHANGED closed
        /\ \E a \in Subject(proc[p]) : Serve(proc[p], a) /\ Answered(p, a)
    BY <1>0, <1>5, AcceptedEffect
  <2>2. PICK a \in Subject(proc[p]) : Serve(proc[p], a) /\ Answered(p, a)
    BY <2>1
  <2>3. (\A b \in DOMAIN accounts' : accounts'[b].live \/ b \in closed') /\ OwnersKept
    BY <2>1, <2>2, DeadIsClosed
  <2>4. RequestFits(proc[p]) /\ proc[p].pc \in {"send", "rotate"}
    BY <1>0, <2>1 DEF ProcessKnown, Sending
  <2>5. \/ ~Leaving(proc'[p])
        \/ /\ Leaving(proc[p]) /\ proc'[p].uid = proc[p].uid
           /\ \/ proc'[p].pc = "forget"
              \/ proc[p].pc # "forget" /\ proc'[p].sent = proc[p].sent
    <3>1. CASE Ended(p, "ok")
      BY <1>c, <3>1
    <3>2. CASE proc[p].req \in {"pre", "recover"} /\ Keeps(proc[p], proc'[p])
      BY <2>4, <3>2 DEF Keeps, Leaving, RequestFits
    <3>3. CASE proc[p].req \in {"login", "signup", "finalize"} /\ proc'[p].cmd = proc[p].cmd
      BY <2>4, <3>3 DEF Leaving, RequestFits
    <3>4. CASE proc[p].pc = "rotate" /\ GivenTokens(p, proc[p].uid, "keep")
      BY <3>4 DEF GivenTokens, Leaving
    <3>5. CASE Leaves(p)
      BY <2>4, <3>5 DEF Leaves, Keeps, Leaving
    <3> QED
      BY <2>2, <3>1, <3>2, <3>3, <3>4, <3>5 DEF Answered, Asks, GivenTokens
  <2> QED
    BY <2>1, <2>3, <2>5, LeavingFrom
<1>6. ASSUME NEW p \in Procs, Lost(p) \/ Refused(p) PROVE LeavingIsClosed'
  <2>1. /\ Others(p) /\ Sending(p) /\ UNCHANGED closed /\ MaybeServed(p)
        /\ \/ Stays(p)
           \/ \E how \in {"auth_required", "unreachable", "incompatible"} : Failed(p, how)
    BY <1>6, LostEffect
  <2>2. (\A b \in DOMAIN accounts' : accounts'[b].live \/ b \in closed') /\ OwnersKept
    BY <1>a, <1>b, <2>1, DeadIsClosed DEF MaybeServed, server
  <2>3. \/ ~Leaving(proc'[p])
        \/ /\ Leaving(proc[p]) /\ proc'[p].uid = proc[p].uid
           /\ \/ proc'[p].pc = "forget"
              \/ proc[p].pc # "forget" /\ proc'[p].sent = proc[p].sent
    BY <1>d, <2>1 DEF Stays, Keeps, Leaving, Sending
  <2> QED
    BY <2>1, <2>2, <2>3, LeavingFrom
<1>7. ASSUME NEW p \in Procs, LockRefresh(p) PROVE LeavingIsClosed'
  <2>1. /\ Others(p) /\ Calm /\ UNCHANGED closed /\ proc[p].pc = "lock"
        /\ \/ Failed(p, "auth_required")
           \/ Rereads(p) /\ proc'[p].pc \in {"send", "rotate"}
    BY <1>7, LockEffect
  <2>2. UNCHANGED <<accounts, owner>>
    BY <2>1 DEF Calm, server
  <2>3. \/ ~Leaving(proc'[p])
        \/ /\ Leaving(proc[p]) /\ proc'[p].uid = proc[p].uid
           /\ \/ proc'[p].pc = "forget"
              \/ proc[p].pc # "forget" /\ proc'[p].sent = proc[p].sent
    BY <1>d, <2>1 DEF Rereads, Leaving
  <2> QED
    BY <1>a, <1>b, <2>1, <2>2, <2>3, LeavingFrom
<1>8. ASSUME NEW p \in Procs, Persist(p) \/ KeepTokens(p) \/ Forget(p) PROVE LeavingIsClosed'
  <2>1. /\ Others(p) /\ UNCHANGED <<server, closed>>
        /\ proc[p].pc \in {"persist", "keep", "forget"}
        /\ \/ Ended(p, "ok") \/ Ended(p, "keychain") \/ Failed(p, "auth_required")
           \/ /\ Keeps(proc[p], proc'[p]) /\ proc'[p].sent = proc[p].sent
              /\ \/ proc'[p].pc = proc[p].pc
                 \/ proc'[p].pc = "send" /\ proc[p].pc = "keep"
    BY <1>0, <1>8, PersistEffect, KeepEffect, ForgetEffect DEF Advances
  <2>2. UNCHANGED <<accounts, owner>>
    BY <2>1 DEF server
  <2>3. \/ ~Leaving(proc'[p])
        \/ /\ Leaving(proc[p]) /\ proc'[p].uid = proc[p].uid
           /\ \/ proc'[p].pc = "forget"
              \/ proc[p].pc # "forget" /\ proc'[p].sent = proc[p].sent
    BY <1>c, <1>d, <2>1 DEF Keeps, Leaving
  <2> QED
    BY <1>a, <1>b, <2>1, <2>2, <2>3, LeavingFrom
<1>9. ASSUME NEW p \in Procs, Crash(p) PROVE LeavingIsClosed'
  <2>1. Others(p) /\ UNCHANGED <<accounts, owner, closed>> /\ Ended(p, "died")
    BY <1>9, CrashEffect DEF server
  <2> QED
    BY <1>a, <1>b, <1>c, <2>1, LeavingFrom
<1>10. CASE UNCHANGED <<accounts, owner, proc, closed>>
  BY <1>10 DEF LeavingIsClosed, TokenOf
<1> QED
  BY <1>1, <1>2, <1>3, <1>4, <1>5, <1>6, <1>7, <1>8, <1>9, <1>10
     DEF Next, Step, Expire, Skew, vars, server, ghosts

-----------------------------------------------------------------------------
(* A refresh token that is not stored yet *)

\* What the service stops accepting: the token that is rotated, and tokens of
\* accounts that somebody leaves.
LEMMA GoodKept ==
  ASSUME Typed, TokensOwned, ProcessesKnown, LeavingIsClosed, NEW p \in Procs, Sending(p),
         NEW a \in Subject(proc[p]), Serve(proc[p], a)
  PROVE  \A n \in goodRT : \/ n \in goodRT' \/ owner[n] \in closed
                           \/ proc[p].pc = "rotate" /\ n = proc[p].rt
<1>1. proc[p].pc = "send" => RequestFits(proc[p])
  BY DEF ProcessesKnown, ProcessKnown
<1>2. \A n \in goodRT : \/ n \in goodRT'
                        \/ Request(proc[p]) = "refresh" /\ n = proc[p].rt
                        \/ Request(proc[p]) = "logout" /\ n = proc[p].sent
                        \/ Request(proc[p]) = "delete" /\ owner[n] = a
  BY <1>1, ServeIs
<1>3. Request(proc[p]) \in {"logout", "delete"} =>
         a = proc[p].uid /\ a \in closed /\ TokenOf(proc[p].sent, a)
  BY DeletesItsOwn
<1>4. Request(proc[p]) = "refresh" => proc[p].pc = "rotate"
  BY ProcessTyped DEF Request, Process, Requests
<1>5. goodRT \subseteq DOMAIN owner /\ NoId \notin DOMAIN owner
  BY AccountsAreIds DEF Typed
<1> QED
  BY <1>2, <1>3, <1>4, <1>5 DEF TokenOf

\* The parts of NewTokenIsGood that a step of p has to establish.
LEMMA NewFrom ==
  ASSUME Typed, TokensOwned, ProcessesKnown, NewTokenIsGood, NEW p \in Procs, Others(p),
         closed \subseteq closed',
         \/ proc'[p].rt \in {NoId, proc[p].rt, Fresh}
         \/ \E a \in Ids : proc'[p].rt = kc.rt[a],
         \A a \in Ids : kc'.rt[a] \in {kc.rt[a], NoId, proc[p].rt},
         \A n \in goodRT : n \in goodRT' \/ owner[n] \in closed \/ n = proc[p].rt,
         Unstored(proc'[p]) => /\ proc'[p].rt = Fresh /\ Fresh \in goodRT' /\ UNCHANGED kc
  PROVE  NewTokenIsGood'
<1>1. \A q \in Procs : q # p => proc'[q] = proc[q]
  BY DEF Others
<1>2. \A q \in Procs : proc[q].rt \in DOMAIN owner \cup {NoId}
  BY DEF TokensOwned, TokenOf
<1>3. \A a \in Ids : kc.rt[a] \in DOMAIN owner \cup {NoId}
  BY DEF TokensOwned, TokenOf
<1>4. Fresh \notin DOMAIN owner /\ Fresh # NoId
  BY AccountsAreIds DEF Fresh, NoId
<1>5. ASSUME NEW q \in Procs, q # p, Unstored(proc[q])
      PROVE  /\ \A s \in Procs : s # q => proc'[s].rt # proc[q].rt
             /\ \A a \in Ids : kc'.rt[a] # proc[q].rt
             /\ proc[q].uid \in closed' \/ proc[q].rt \in goodRT'
  <2>1. proc[q].rt # NoId
    BY <1>5 DEF Unstored, ProcessesKnown, ProcessKnown
  <2>2. /\ \A s \in Procs : s # q => proc[s].rt # proc[q].rt
        /\ \A a \in Ids : kc.rt[a] # proc[q].rt
        /\ proc[q].uid \in closed \/ proc[q].rt \in goodRT
    BY <1>5 DEF NewTokenIsGood
  <2>3. proc[q].rt \in DOMAIN owner /\ owner[proc[q].rt] = proc[q].uid
    BY <2>1 DEF TokensOwned, TokenOf
  <2>4. proc'[p].rt # proc[q].rt
    BY <1>4, <1>5, <2>1, <2>2, <2>3
  <2>5. \A s \in Procs : s # q => proc'[s].rt # proc[q].rt
    BY <1>1, <2>2, <2>4
  <2>6. \A a \in Ids : kc'.rt[a] # proc[q].rt
    BY <1>5, <2>1, <2>2
  <2>7. proc[q].uid \in closed' \/ proc[q].rt \in goodRT'
    BY <1>5, <2>2, <2>3
  <2> QED
    BY <2>5, <2>6, <2>7
<1>6. ASSUME Unstored(proc'[p])
      PROVE  /\ \A s \in Procs : s # p => proc'[s].rt # proc'[p].rt
             /\ \A a \in Ids : kc'.rt[a] # proc'[p].rt
             /\ proc'[p].rt \in goodRT'
  BY <1>1, <1>2, <1>3, <1>4, <1>6
<1> QED
  BY <1>1, <1>5, <1>6 DEF NewTokenIsGood, Unstored

\* Every step keeps a token that is not stored yet private and good.
LEMMA NewStep ==
  ASSUME Typed, TokensOwned, ProcessesKnown, LeavingIsClosed, NewTokenIsGood, [Next]_vars
  PROVE  NewTokenIsGood'
<1>0. \A p \in Procs : /\ ProcessKnown(proc[p]) /\ proc[p] \in Process
                       /\ proc[p].uid \in {NoId} \cup DOMAIN accounts
  BY DEF ProcessesKnown, Typed
<1>a. \A p \in Procs : \A how : Ended(p, how) => proc'[p].rt = NoId /\ ~Unstored(proc'[p])
  BY IdleFields DEF Ended, Unstored
<1>b. \A p \in Procs : \A how : Failed(p, how) =>
         proc'[p].rt \in {NoId, proc[p].rt} /\ ~Unstored(proc'[p])
  BY <1>a DEF Failed, Leaves, Keeps, Unstored
<1>1. ASSUME NEW p \in Procs, NEW x \in Plans, Start(p, x) PROVE NewTokenIsGood'
  <2>1. /\ Others(p) /\ UNCHANGED <<kc, goodRT, closed>> /\ ~Unstored(proc'[p])
        /\ proc'[p].rt = NoId \/ (kc.cur # NoId /\ proc'[p].rt = kc.rt[kc.cur])
    BY <1>1, StartEffect DEF Calm, server, Unstored
  <2>2. kc.cur # NoId => kc.cur \in Ids
    BY AccountsAreIds DEF Typed
  <2> QED
    BY <2>1, <2>2, NewFrom
<1>2. ASSUME NEW p \in Procs,
             BeginStatus(p) \/ BeginPush(p) \/ BeginLogin(p) \/ BeginSignup(p) \/ BeginLeave(p)
      PROVE  NewTokenIsGood'
  <2>1. /\ Others(p) /\ Calm /\ closed \subseteq closed'
        /\ \/ Ended(p, "signed_out") \/ Ended(p, "no_keys") \/ Ended(p, "no_recovery_file")
           \/ Keeps(proc[p], proc'[p]) /\ proc'[p].pc \in {"send", "forget"}
    BY <1>2, StatusEffect, PushEffect, LoginEffect, SignupEffect, LeaveEffect DEF Asks, Leaves
  <2>2. UNCHANGED <<kc, goodRT>>
    BY <2>1 DEF Calm, server
  <2>3. proc'[p].rt \in {NoId, proc[p].rt} /\ ~Unstored(proc'[p])
    BY <1>a, <2>1 DEF Keeps, Unstored
  <2> QED
    BY <2>1, <2>2, <2>3, NewFrom
<1>3. ASSUME NEW p \in Procs, Discovery(p) \/ Denied(p) \/ Rejected(p) PROVE NewTokenIsGood'
  <2>1. /\ Others(p) /\ Calm /\ UNCHANGED closed
        /\ \/ Failed(p, "auth_required") \/ Failed(p, "rejected") \/ Failed(p, "unreachable")
           \/ Keeps(proc[p], proc'[p]) /\ proc'[p].pc = "lock"
    BY <1>3, RefusalEffect
  <2>2. UNCHANGED <<kc, goodRT>>
    BY <2>1 DEF Calm, server
  <2>3. proc'[p].rt \in {NoId, proc[p].rt} /\ ~Unstored(proc'[p])
    BY <1>b, <2>1 DEF Keeps, Unstored
  <2> QED
    BY <2>1, <2>2, <2>3, NewFrom
<1>4. ASSUME NEW p \in Procs, Accepted(p) PROVE NewTokenIsGood'
  <2>1. /\ Others(p) /\ Sending(p) /\ UNCHANGED <<kc, closed>>
        /\ \E a \in Subject(proc[p]) : Serve(proc[p], a) /\ Answered(p, a)
    BY <1>0, <1>4, AcceptedEffect
  <2>2. PICK a \in Subject(proc[p]) : Serve(proc[p], a) /\ Answered(p, a)
    BY <2>1
  <2>3. \A n \in goodRT : n \in goodRT' \/ owner[n] \in closed \/ n = proc[p].rt
    BY <2>1, <2>2, GoodKept
  <2>4. Request(proc[p]) \in {"signup", "login", "finalize", "refresh"} => Fresh \in goodRT'
    BY <1>0, <2>1, <2>2, ServeIs DEF ProcessKnown, Minted
  <2>5. /\ proc'[p].rt \in {NoId, proc[p].rt, Fresh}
        /\ Unstored(proc'[p]) => proc'[p].rt = Fresh /\ Fresh \in goodRT'
    <3>1. CASE Ended(p, "ok")
      BY <1>a, <3>1
    <3>2. CASE Keeps(proc[p], proc'[p]) /\ proc'[p].pc \in {"send", "forget"}
      BY <3>2 DEF Keeps, Unstored
    <3>3. CASE /\ proc'[p].rt = Fresh
               /\ \/ proc[p].pc = "send" /\ proc[p].req \in {"login", "signup", "finalize"}
                  \/ proc[p].pc = "rotate"
      BY <2>4, <3>3 DEF Request
    <3> QED
      BY <2>2, <3>1, <3>2, <3>3 DEF Answered, Asks, GivenTokens, Leaves
  <2> QED
    BY <2>1, <2>3, <2>5, NewFrom
<1>5. ASSUME NEW p \in Procs, Lost(p) \/ Refused(p) PROVE NewTokenIsGood'
  <2>1. /\ Others(p) /\ Sending(p) /\ UNCHANGED <<kc, closed>> /\ MaybeServed(p)
        /\ \/ Stays(p)
           \/ \E how \in {"auth_required", "unreachable", "incompatible"} : Failed(p, how)
    BY <1>5, LostEffect
  <2>2. \A n \in goodRT : n \in goodRT' \/ owner[n] \in closed \/ n = proc[p].rt
    BY <2>1, GoodKept DEF MaybeServed, server
  <2>3. proc'[p].rt \in {NoId, proc[p].rt} /\ ~Unstored(proc'[p])
    BY <1>b, <2>1 DEF Stays, Keeps, Unstored, Sending
  <2> QED
    BY <2>1, <2>2, <2>3, NewFrom
<1>6. ASSUME NEW p \in Procs, LockRefresh(p) PROVE NewTokenIsGood'
  <2>1. /\ Others(p) /\ Calm /\ UNCHANGED closed
        /\ Failed(p, "auth_required") \/ (Rereads(p) /\ proc'[p].pc \in {"send", "rotate"})
    BY <1>6, LockEffect
  <2>2. UNCHANGED <<kc, goodRT>>
    BY <2>1 DEF Calm, server
  <2>3. proc[p].uid # NoId => proc[p].uid \in Ids
    BY <1>0, AccountsAreIds
  <2>4. /\ ~Unstored(proc'[p])
        /\ \/ proc'[p].rt \in {NoId, proc[p].rt}
           \/ proc[p].uid \in Ids /\ proc'[p].rt = kc.rt[proc[p].uid]
    BY <1>b, <2>1, <2>3 DEF Rereads, Unstored
  <2> QED
    BY <2>1, <2>2, <2>4, NewFrom
<1>7. ASSUME NEW p \in Procs, Persist(p) \/ KeepTokens(p) \/ Forget(p) PROVE NewTokenIsGood'
  <2>1. /\ Others(p) /\ UNCHANGED <<server, closed>>
        /\ \/ Stores(p) /\ proc[p].pc \in {"persist", "keep"}
           \/ Clears(p)
           \/ UNCHANGED kc
        /\ \/ Ended(p, "ok") \/ Ended(p, "keychain") \/ Failed(p, "auth_required")
           \/ /\ Keeps(proc[p], proc'[p])
              /\ \/ proc'[p].step = proc[p].step + 1 /\ proc[p].step \in 1..5
                 \/ proc'[p].pc = "send"
    BY <1>0, <1>7, PersistEffect, KeepEffect, ForgetEffect DEF Advances, ProcessKnown
  <2>2. UNCHANGED goodRT
    BY <2>1 DEF server
  <2>3. proc'[p].rt \in {NoId, proc[p].rt} /\ ~Unstored(proc'[p])
    BY <1>a, <1>b, <2>1 DEF Keeps, Unstored
  <2>4. \A a \in Ids : kc'.rt[a] \in {kc.rt[a], NoId, proc[p].rt}
    <3>1. CASE Stores(p) /\ proc[p].pc \in {"persist", "keep"}
      <4>1. kc.rt \in [Ids -> Nat]
        BY DEF Typed, Keychain
      <4> QED
        BY <3>1, <4>1 DEF Stores
    <3> QED
      BY <2>1, <3>1 DEF Clears
  <2> QED
    BY <2>1, <2>2, <2>3, <2>4, NewFrom
<1>8. ASSUME NEW p \in Procs, Crash(p) PROVE NewTokenIsGood'
  <2>1. Others(p) /\ UNCHANGED <<kc, goodRT, closed>> /\ Ended(p, "died")
    BY <1>8, CrashEffect DEF server
  <2> QED
    BY <1>a, <2>1, NewFrom
<1>9. CASE UNCHANGED <<proc, kc, goodRT, closed>>
  BY <1>9 DEF NewTokenIsGood, Unstored
<1> QED
  BY <1>1, <1>2, <1>3, <1>4, <1>5, <1>6, <1>7, <1>8, <1>9
     DEF Next, Step, Expire, Skew, vars, server, ghosts

-----------------------------------------------------------------------------
(* Entries of the keychain *)

\* Only Persist, KeepTokens and Forget write to the keychain.
LEMMA KeychainChange ==
  ASSUME Typed, TokensOwned, ProcessesKnown, [Next]_vars
  PROVE  /\ closed \subseteq closed'
         /\ \/ UNCHANGED kc
            \/ \E p \in Procs : /\ Stores(p) /\ proc[p].pc \in {"persist", "keep"}
                                /\ proc[p].uid \in Ids /\ proc[p].rt # NoId
            \/ \E p \in Procs : Clears(p) /\ proc[p].pc = "forget"
<1>0. \A p \in Procs : ProcessKnown(proc[p])
  BY DEF ProcessesKnown
<1>1. ASSUME NEW p \in Procs, NEW x \in Plans, Start(p, x) PROVE UNCHANGED <<kc, closed>>
  BY <1>1 DEF Start, ghosts
<1>2. ASSUME NEW p \in Procs,
             \/ BeginStatus(p) \/ BeginPush(p) \/ BeginLogin(p) \/ BeginSignup(p) \/ BeginLeave(p)
             \/ Discovery(p) \/ Accepted(p) \/ Denied(p) \/ Rejected(p) \/ Lost(p) \/ Refused(p)
             \/ LockRefresh(p) \/ Crash(p)
      PROVE  UNCHANGED kc /\ closed \subseteq closed'
  BY <1>2 DEF BeginStatus, BeginPush, BeginLogin, BeginSignup, BeginLeave, Discovery, Accepted,
              Denied, Rejected, Lost, Refused, LockRefresh, Crash, ghosts
<1>3. ASSUME NEW p \in Procs, Persist(p) \/ KeepTokens(p)
      PROVE  /\ UNCHANGED closed
             /\ \/ UNCHANGED kc
                \/ /\ Stores(p) /\ proc[p].pc \in {"persist", "keep"} /\ proc[p].uid \in Ids
                   /\ proc[p].rt # NoId
  <2>1. proc[p].pc \in {"persist", "keep"} /\ proc[p].rt # NoId
    BY <1>0, <1>3, PersistEffect, KeepEffect DEF ProcessKnown
  <2>2. UNCHANGED closed /\ (UNCHANGED kc \/ Stores(p))
    BY <1>0, <1>3, PersistEffect, KeepEffect
  <2> QED
    BY <2>1, <2>2, HolderIsAccount
<1>4. ASSUME NEW p \in Procs, Forget(p)
      PROVE  UNCHANGED closed /\ Clears(p) /\ proc[p].pc = "forget"
  BY <1>0, <1>4, ForgetEffect
<1>5. CASE UNCHANGED <<kc, closed>>
  BY <1>5
<1> QED
  BY <1>1, <1>2, <1>3, <1>4, <1>5 DEF Next, Step, Expire, Skew, vars, ghosts

\* What the keychain has for an account that nobody left stays there.
KeysStay ==
  \A b \in Ids : b \notin closed' =>
     /\ kc.rt[b] # NoId => kc'.rt[b] # NoId
     /\ kc.dek[b] = b => kc'.dek[b] = b
     /\ kc.wrapped[b] # <<>> => kc'.wrapped[b] # <<>>

\* Accounts stay closed, and only those leaving them lose their keys.
LEMMA KeysStayStep ==
  ASSUME Typed, TokensOwned, ProcessesKnown, LeavingIsClosed, [Next]_vars
  PROVE  closed \subseteq closed' /\ KeysStay
<1>1. closed \subseteq closed'
  BY KeychainChange
<1>2. CASE UNCHANGED kc
  BY <1>1, <1>2 DEF KeysStay
<1>3. ASSUME NEW p \in Procs, Stores(p), proc[p].uid \in Ids, proc[p].rt # NoId
      PROVE  KeysStay
  <2>1. DeriveKeys(proc[p].pass, proc[p].got) # <<>>
    BY DEF DeriveKeys
  <2>2. /\ kc.rt \in [Ids -> Nat] /\ kc.dek \in [Ids -> Nat]
        /\ kc.wrapped \in [Ids -> WrappedKey \cup {<<>>}]
    BY DEF Typed, Keychain
  <2>3. \A b \in Ids : kc.rt[b] # NoId => kc'.rt[b] # NoId
    BY <1>3, <2>2 DEF Stores
  <2>4. \A b \in Ids : kc.dek[b] = b => kc'.dek[b] = b
    BY <1>3, <2>2 DEF Stores
  <2>5. \A b \in Ids : kc.wrapped[b] # <<>> => kc'.wrapped[b] # <<>>
    BY <1>3, <2>1, <2>2 DEF Stores
  <2> QED
    BY <2>3, <2>4, <2>5 DEF KeysStay
<1>4. ASSUME NEW p \in Procs, Clears(p), proc[p].pc = "forget" PROVE KeysStay
  <2>1. proc[p].cmd \in {"logout", "delete"}
    BY <1>4 DEF ProcessesKnown, ProcessKnown
  <2>2. proc[p].uid \in closed'
    BY <1>1, <1>4, <2>1 DEF LeavingIsClosed
  <2> QED
    BY <1>4, <2>2 DEF Clears, KeysStay
<1> QED
  BY <1>1, <1>2, <1>3, <1>4, KeychainChange

\* A step after which what p counts on is in the keychain.
LEMMA KeysFrom ==
  ASSUME Typed, TokensOwned, ProcessesKnown, KeysKept, KeysStay, closed \subseteq closed',
         NEW p \in Procs, Others(p),
         \/ proc'[p].uid = NoId /\ proc'[p].pc # "persist"
         \/ proc'[p].uid = proc[p].uid /\ proc[p].pc # "persist" /\ proc'[p].pc # "persist"
         \/ kc'.rt[proc'[p].uid] # NoId /\ proc'[p].pc # "persist"
         \/ proc'[p].pc = "persist" /\ proc'[p].step = 1
         \/ /\ proc[p].pc = "persist" /\ proc'[p].pc = "persist" /\ proc'[p].uid = proc[p].uid
            /\ proc'[p].step = proc[p].step + 1
            /\ proc[p].step = 1 => kc'.rt[proc[p].uid] # NoId
            /\ proc[p].step = 4 => kc'.dek[proc[p].uid] = proc[p].uid
  PROVE  KeysKept'
<1>1. \A q \in Procs : /\ proc[q].uid \in {NoId} \cup Ids
                       /\ proc[q].pc = "persist" => proc[q].uid \in Ids /\ proc[q].step \in 1..5
  BY HolderIsAccount, AccountsAreIds DEF ProcessesKnown, ProcessKnown, Typed
<1>2. \A q \in Procs : q # p => proc'[q] = proc[q]
  BY DEF Others
<1>3. ASSUME NEW q \in Procs, q # p PROVE PersistedSoFar(proc[q])'
  BY <1>1, <1>2, <1>3 DEF KeysKept, PersistedSoFar, KeysStay
<1>4. ASSUME NEW q \in Procs, q # p, proc'[q].pc # "persist", proc'[q].uid # NoId
      PROVE  proc'[q].uid \in closed' \/ kc'.rt[proc'[q].uid] # NoId
  BY <1>1, <1>2, <1>4 DEF KeysKept, KeysStay
<1>5. PersistedSoFar(proc[p])'
  <2>1. CASE proc'[p].pc # "persist"
    BY <2>1 DEF PersistedSoFar
  <2>2. CASE proc'[p].pc = "persist" /\ proc'[p].step = 1
    BY <2>2 DEF PersistedSoFar
  <2>3. CASE /\ proc[p].pc = "persist" /\ proc'[p].pc = "persist" /\ proc'[p].uid = proc[p].uid
             /\ proc'[p].step = proc[p].step + 1
             /\ proc[p].step = 1 => kc'.rt[proc[p].uid] # NoId
             /\ proc[p].step = 4 => kc'.dek[proc[p].uid] = proc[p].uid
    <3>1. proc[p].uid \in Ids /\ proc[p].step \in 1..5 /\ PersistedSoFar(proc[p])
      BY <1>1, <2>3 DEF KeysKept
    <3> QED
      BY <2>3, <3>1 DEF PersistedSoFar, KeysStay
  <2> QED
    BY <2>1, <2>2, <2>3
<1>6. ASSUME proc'[p].pc # "persist", proc'[p].uid # NoId
      PROVE  proc'[p].uid \in closed' \/ kc'.rt[proc'[p].uid] # NoId
  BY <1>1, <1>6 DEF KeysKept, KeysStay
<1> QED
  BY <1>3, <1>4, <1>5, <1>6 DEF KeysKept

\* Every step keeps it.
LEMMA KeysStep ==
  ASSUME Typed, TokensOwned, ProcessesKnown, LeavingIsClosed, KeysKept, [Next]_vars
  PROVE  KeysKept'
<1>0. /\ closed \subseteq closed' /\ KeysStay
      /\ \A p \in Procs : ProcessKnown(proc[p]) /\ proc[p] \in Process
  BY KeysStayStep DEF ProcessesKnown, Typed
<1>a. \A p \in Procs : \A how : Ended(p, how) => proc'[p].uid = NoId /\ proc'[p].pc # "persist"
  BY IdleFields DEF Ended
<1>b. \A p \in Procs : \A how : Failed(p, how) =>
         proc'[p].uid \in {NoId, proc[p].uid} /\ proc'[p].pc # "persist"
  BY <1>a DEF Failed, Leaves, Keeps
<1>1. ASSUME NEW p \in Procs, NEW x \in Plans, Start(p, x) PROVE KeysKept'
  <2>1. /\ Others(p) /\ UNCHANGED kc /\ proc'[p].pc = "begin"
        /\ proc'[p].uid = NoId \/ (proc'[p].uid = kc.cur /\ kc.rt[kc.cur] # NoId)
    BY <1>1, StartEffect DEF Calm
  <2> QED
    BY <1>0, <2>1, KeysFrom
<1>2. ASSUME NEW p \in Procs,
             BeginStatus(p) \/ BeginPush(p) \/ BeginLogin(p) \/ BeginSignup(p) \/ BeginLeave(p)
      PROVE  KeysKept'
  <2>1. /\ Others(p) /\ proc[p].pc = "begin"
        /\ \/ Ended(p, "signed_out") \/ Ended(p, "no_keys") \/ Ended(p, "no_recovery_file")
           \/ Keeps(proc[p], proc'[p]) /\ proc'[p].pc \in {"send", "forget"}
    BY <1>2, StatusEffect, PushEffect, LoginEffect, SignupEffect, LeaveEffect DEF Asks, Leaves
  <2>2. \/ proc'[p].uid = NoId /\ proc'[p].pc # "persist"
        \/ proc'[p].uid = proc[p].uid /\ proc[p].pc # "persist" /\ proc'[p].pc # "persist"
    BY <1>a, <2>1 DEF Keeps
  <2> QED
    BY <1>0, <2>1, <2>2, KeysFrom
<1>3. ASSUME NEW p \in Procs, Discovery(p) \/ Denied(p) \/ Rejected(p) PROVE KeysKept'
  <2>1. /\ Others(p) /\ proc[p].pc \in {"send", "rotate"}
        /\ \/ Failed(p, "auth_required") \/ Failed(p, "rejected") \/ Failed(p, "unreachable")
           \/ Keeps(proc[p], proc'[p]) /\ proc'[p].pc = "lock"
    BY <1>3, RefusalEffect DEF Sending
  <2>2. \/ proc'[p].uid = NoId /\ proc'[p].pc # "persist"
        \/ proc'[p].uid = proc[p].uid /\ proc[p].pc # "persist" /\ proc'[p].pc # "persist"
    BY <1>b, <2>1 DEF Keeps
  <2> QED
    BY <1>0, <2>1, <2>2, KeysFrom
<1>4. ASSUME NEW p \in Procs, Accepted(p) PROVE KeysKept'
  <2>1. /\ Others(p) /\ proc[p].pc \in {"send", "rotate"}
        /\ \E a \in Subject(proc[p]) : Answered(p, a)
    BY <1>0, <1>4, AcceptedEffect DEF Sending
  <2>2. \/ proc'[p].uid = NoId /\ proc'[p].pc # "persist"
        \/ proc'[p].uid = proc[p].uid /\ proc[p].pc # "persist" /\ proc'[p].pc # "persist"
        \/ proc'[p].pc = "persist" /\ proc'[p].step = 1
    BY <1>a, <2>1 DEF Answered, Asks, GivenTokens, Leaves, Keeps
  <2> QED
    BY <1>0, <2>1, <2>2, KeysFrom
<1>5. ASSUME NEW p \in Procs, Lost(p) \/ Refused(p) PROVE KeysKept'
  <2>1. /\ Others(p) /\ proc[p].pc \in {"send", "rotate"}
        /\ \/ Stays(p)
           \/ \E how \in {"auth_required", "unreachable", "incompatible"} : Failed(p, how)
    BY <1>5, LostEffect DEF Sending
  <2>2. \/ proc'[p].uid = NoId /\ proc'[p].pc # "persist"
        \/ proc'[p].uid = proc[p].uid /\ proc[p].pc # "persist" /\ proc'[p].pc # "persist"
    BY <1>b, <2>1 DEF Stays, Keeps
  <2> QED
    BY <1>0, <2>1, <2>2, KeysFrom
<1>6. ASSUME NEW p \in Procs, LockRefresh(p) PROVE KeysKept'
  <2>1. /\ Others(p) /\ proc[p].pc = "lock"
        /\ Failed(p, "auth_required") \/ (Rereads(p) /\ proc'[p].pc \in {"send", "rotate"})
    BY <1>6, LockEffect
  <2>2. \/ proc'[p].uid = NoId /\ proc'[p].pc # "persist"
        \/ proc'[p].uid = proc[p].uid /\ proc[p].pc # "persist" /\ proc'[p].pc # "persist"
    BY <1>b, <2>1 DEF Rereads
  <2> QED
    BY <1>0, <2>1, <2>2, KeysFrom
<1>7. ASSUME NEW p \in Procs, Persist(p) PROVE KeysKept'
  <2>1. /\ Others(p) /\ proc[p].pc = "persist" /\ proc[p].rt # NoId
        /\ \/ Stores(p) /\ Advances(p)
           \/ Ended(p, "ok") \/ Ended(p, "keychain")
    BY <1>0, <1>7, PersistEffect DEF ProcessKnown
  <2>2. CASE Stores(p) /\ Advances(p)
    <3>1. proc[p].uid \in Ids
      BY <2>1, HolderIsAccount
    <3>2. kc.rt \in [Ids -> Nat] /\ kc.dek \in [Ids -> Nat]
      BY DEF Typed, Keychain
    <3>3. /\ proc[p].step = 1 => kc'.rt[proc[p].uid] # NoId
          /\ proc[p].step = 4 => kc'.dek[proc[p].uid] = proc[p].uid
      BY <2>1, <2>2, <3>1, <3>2 DEF Stores
    <3>4. /\ proc'[p].pc = "persist" /\ proc'[p].uid = proc[p].uid
          /\ proc'[p].step = proc[p].step + 1
      BY <2>1, <2>2 DEF Advances, Keeps
    <3> QED
      BY <1>0, <2>1, <3>3, <3>4, KeysFrom
  <2> QED
    BY <1>0, <1>a, <2>1, <2>2, KeysFrom
<1>8. ASSUME NEW p \in Procs, KeepTokens(p) \/ Forget(p) PROVE KeysKept'
  <2>1. /\ Others(p) /\ proc[p].pc \in {"keep", "forget"}
        /\ \/ Ended(p, "ok") \/ Ended(p, "keychain") \/ Failed(p, "auth_required")
           \/ Keeps(proc[p], proc'[p]) /\ (proc'[p].pc = proc[p].pc \/ proc'[p].pc = "send")
    BY <1>0, <1>8, KeepEffect, ForgetEffect DEF Advances
  <2>2. \/ proc'[p].uid = NoId /\ proc'[p].pc # "persist"
        \/ proc'[p].uid = proc[p].uid /\ proc[p].pc # "persist" /\ proc'[p].pc # "persist"
    BY <1>a, <1>b, <2>1 DEF Keeps
  <2> QED
    BY <1>0, <2>1, <2>2, KeysFrom
<1>9. ASSUME NEW p \in Procs, Crash(p) PROVE KeysKept'
  <2>1. Others(p) /\ Ended(p, "died")
    BY <1>9, CrashEffect
  <2> QED
    BY <1>0, <1>a, <2>1, KeysFrom
<1>10. CASE UNCHANGED <<kc, proc, closed>>
  BY <1>10 DEF KeysKept, PersistedSoFar
<1> QED
  BY <1>1, <1>2, <1>3, <1>4, <1>5, <1>6, <1>7, <1>8, <1>9, <1>10
     DEF Next, Step, Expire, Skew, vars, ghosts

-----------------------------------------------------------------------------
(* The refresh token in the keychain *)

\* A step of p after which a dead token in the keychain has an excuse.
LEMMA LiveFrom ==
  ASSUME Typed, TokensOwned, ProcessesKnown, LeavingIsClosed, StoredTokenIsLive,
         NEW p \in Procs, Others(p), burnt => burnt', closed \subseteq closed',
         \A b \in Ids : \/ kc'.rt[b] \in {kc.rt[b], NoId} \/ b \in closed' \/ kc'.rt[b] \in goodRT',
         \A n \in goodRT : \/ n \in goodRT' \/ owner[n] \in closed \/ burnt'
                           \/ /\ n = proc[p].rt /\ proc'[p].uid = proc[p].uid
                              /\ proc'[p].pc = "keep" /\ proc'[p].step = 1,
         proc[p].pc = "keep" /\ proc[p].step = 1 =>
            burnt' \/ proc[p].uid \in closed' \/ kc'.rt[proc[p].uid] \in goodRT',
         DOMAIN accounts' \subseteq Ids
  PROVE  StoredTokenIsLive'
<1> SUFFICES ASSUME NEW a \in DOMAIN accounts', kc'.rt[a] # NoId, a \notin closed', ~burnt',
                    kc'.rt[a] \notin goodRT'
             PROVE  \E q \in Procs : proc'[q].pc = "keep" /\ proc'[q].uid = a /\ proc'[q].step = 1
  BY DEF StoredTokenIsLive
<1>1. a \in Ids /\ kc'.rt[a] = kc.rt[a] /\ a \notin closed
  OBVIOUS
<1>2. kc.rt[a] \in DOMAIN owner /\ owner[kc.rt[a]] = a
  BY <1>1 DEF TokensOwned, TokenOf
<1>3. a \in DOMAIN accounts /\ accounts[a].live
  BY <1>1, <1>2 DEF Typed, LeavingIsClosed
<1>4. CASE kc.rt[a] \in goodRT
  <2>1. /\ kc.rt[a] = proc[p].rt /\ proc'[p].uid = proc[p].uid
        /\ proc'[p].pc = "keep" /\ proc'[p].step = 1
    BY <1>1, <1>2, <1>4
  <2>2. proc[p].uid = a
    BY <1>1, <1>2, <2>1 DEF TokensOwned, TokenOf
  <2> QED
    BY <2>1, <2>2
<1>5. CASE kc.rt[a] \notin goodRT
  <2>1. PICK q \in Procs : proc[q].pc = "keep" /\ proc[q].uid = a /\ proc[q].step = 1
    BY <1>1, <1>3, <1>5 DEF StoredTokenIsLive
  <2>2. q # p
    BY <2>1
  <2> QED
    BY <2>1, <2>2 DEF Others
<1> QED
  BY <1>4, <1>5

\* A token that is stored is a new one, and good.
LEMMA StoresGood ==
  ASSUME Typed, NewTokenIsGood, NEW p \in Procs, Stores(p), proc[p].pc \in {"persist", "keep"},
         proc[p].uid \in Ids
  PROVE  /\ \A b \in Ids : \/ kc'.rt[b] = kc.rt[b] \/ b \in closed \/ kc'.rt[b] \in goodRT
         /\ proc[p].step = 1 => proc[p].uid \in closed \/ kc'.rt[proc[p].uid] \in goodRT
<1>1. kc.rt \in [Ids -> Nat]
  BY DEF Typed, Keychain
<1>2. proc[p].step = 1 => proc[p].uid \in closed \/ proc[p].rt \in goodRT
  BY DEF NewTokenIsGood, Unstored
<1> QED
  BY <1>1, <1>2 DEF Stores

\* Every step keeps it.
LEMMA LiveStep ==
  ASSUME Typed, Typed', TokensOwned, ProcessesKnown, LeavingIsClosed, NewTokenIsGood,
         StoredTokenIsLive, [Next]_vars
  PROVE  StoredTokenIsLive'
<1>0. /\ \A p \in Procs : ProcessKnown(proc[p]) /\ proc[p] \in Process
      /\ DOMAIN accounts \subseteq Ids
  BY AccountsAreIds DEF ProcessesKnown, Typed
<1>00. DOMAIN accounts' \subseteq Ids
  <2>1. accounts' \in Seq(Account) /\ Len(accounts') <= MaxAccounts
    BY DEF Typed
  <2>2. DOMAIN accounts' = 1..Len(accounts') /\ Len(accounts') \in Nat
    BY <2>1
  <2> QED
    BY <2>1, <2>2, SessionBounds DEF Ids
<1>1. ASSUME NEW p \in Procs, NEW x \in Plans, Start(p, x) PROVE StoredTokenIsLive'
  <2>1. Others(p) /\ UNCHANGED <<kc, goodRT, closed, burnt>> /\ proc[p].pc = "idle"
    BY <1>1, StartEffect DEF Calm, server
  <2> QED
    BY <1>00, <2>1, LiveFrom
<1>2. ASSUME NEW p \in Procs,
             BeginStatus(p) \/ BeginPush(p) \/ BeginLogin(p) \/ BeginSignup(p) \/ BeginLeave(p)
      PROVE  StoredTokenIsLive'
  <2>1. Others(p) /\ Calm /\ closed \subseteq closed' /\ proc[p].pc = "begin"
    BY <1>2, StatusEffect, PushEffect, LoginEffect, SignupEffect, LeaveEffect
  <2>2. UNCHANGED <<kc, goodRT, burnt>>
    BY <2>1 DEF Calm, server
  <2> QED
    BY <1>00, <2>1, <2>2, LiveFrom
<1>3. ASSUME NEW p \in Procs, Discovery(p) \/ Denied(p) \/ Rejected(p) \/ LockRefresh(p)
      PROVE  StoredTokenIsLive'
  <2>1. Others(p) /\ Calm /\ UNCHANGED closed /\ proc[p].pc \in {"send", "rotate", "lock"}
    BY <1>3, RefusalEffect, LockEffect DEF Sending
  <2>2. UNCHANGED <<kc, goodRT, burnt>>
    BY <2>1 DEF Calm, server
  <2> QED
    BY <1>00, <2>1, <2>2, LiveFrom
<1>4. ASSUME NEW p \in Procs, Accepted(p) PROVE StoredTokenIsLive'
  <2>1. /\ Others(p) /\ Sending(p) /\ UNCHANGED <<kc, burnt, closed>>
        /\ \E a \in Subject(proc[p]) : Serve(proc[p], a) /\ Answered(p, a)
    BY <1>0, <1>4, AcceptedEffect
  <2>2. PICK a \in Subject(proc[p]) : Serve(proc[p], a) /\ Answered(p, a)
    BY <2>1
  <2>3. \A n \in goodRT : n \in goodRT' \/ owner[n] \in closed \/ (proc[p].pc = "rotate" /\ n = proc[p].rt)
    BY <2>1, <2>2, GoodKept
  <2>4. proc[p].pc = "rotate" => proc'[p].uid = proc[p].uid /\ proc'[p].pc = "keep" /\ proc'[p].step = 1
    BY <2>2 DEF Answered, GivenTokens
  <2>5. proc[p].pc # "keep"
    BY <2>1 DEF Sending
  <2> QED
    BY <1>00, <2>1, <2>3, <2>4, <2>5, LiveFrom
<1>5. ASSUME NEW p \in Procs, Lost(p) \/ Refused(p) PROVE StoredTokenIsLive'
  <2>1. Others(p) /\ Sending(p) /\ UNCHANGED <<kc, closed>> /\ MaybeServed(p)
    BY <1>5, LostEffect
  <2>2. \A n \in goodRT : n \in goodRT' \/ owner[n] \in closed \/ burnt'
    BY <2>1, GoodKept DEF MaybeServed, server
  <2>3. proc[p].pc # "keep"
    BY <2>1 DEF Sending
  <2>4. burnt => burnt'
    BY <2>1, Zenon DEF MaybeServed
  <2> QED
    BY <1>00, <2>1, <2>2, <2>3, <2>4, LiveFrom
<1>6. ASSUME NEW p \in Procs, Persist(p) \/ KeepTokens(p) PROVE StoredTokenIsLive'
  <2>1. /\ Others(p) /\ UNCHANGED <<goodRT, closed>> /\ proc[p].pc \in {"persist", "keep"}
        /\ \/ Stores(p) /\ UNCHANGED burnt
           \/ /\ UNCHANGED kc /\ (burnt => burnt')
              /\ proc[p].pc = "keep" /\ proc[p].step = 1 => burnt'
    BY <1>0, <1>6, PersistEffect, KeepEffect DEF server
  <2>2. proc[p].uid \in Ids
    BY <1>0, <2>1, HolderIsAccount DEF ProcessKnown
  <2>3. CASE Stores(p) /\ UNCHANGED burnt
    <3>1. /\ \A b \in Ids : \/ kc'.rt[b] = kc.rt[b] \/ b \in closed \/ kc'.rt[b] \in goodRT
          /\ proc[p].step = 1 => proc[p].uid \in closed \/ kc'.rt[proc[p].uid] \in goodRT
      BY <2>1, <2>2, <2>3, StoresGood
    <3> QED
      BY <1>00, <2>1, <2>3, <3>1, LiveFrom
  <2> QED
    BY <1>00, <2>1, <2>3, LiveFrom
<1>7. ASSUME NEW p \in Procs, Forget(p) PROVE StoredTokenIsLive'
  <2>1. Others(p) /\ UNCHANGED <<goodRT, closed, burnt>> /\ proc[p].pc = "forget" /\ Clears(p)
    BY <1>0, <1>7, ForgetEffect DEF server
  <2>2. \A b \in Ids : kc'.rt[b] \in {kc.rt[b], NoId}
    BY <2>1 DEF Clears
  <2> QED
    BY <1>00, <2>1, <2>2, LiveFrom
<1>8. ASSUME NEW p \in Procs, Crash(p) PROVE StoredTokenIsLive'
  <2>1. /\ Others(p) /\ UNCHANGED <<kc, goodRT, closed>>
        /\ burnt' = (burnt \/ (proc[p].pc = "keep" /\ proc[p].step = 1))
    BY <1>8, CrashEffect DEF server
  <2> QED
    BY <1>00, <2>1, LiveFrom
<1>9. CASE UNCHANGED <<accounts, proc, kc, goodRT, closed, burnt>>
  BY <1>9 DEF StoredTokenIsLive
<1> QED
  BY <1>1, <1>2, <1>3, <1>4, <1>5, <1>6, <1>7, <1>8, <1>9
     DEF Next, Step, Expire, Skew, vars, server, ghosts

-----------------------------------------------------------------------------
(* Going on without a fault *)

\* A step of p without a fault after which everybody can go on.
LEMMA UsableFrom ==
  ASSUME Typed, TokensOwned, ProcessesKnown, LockIsHeld, TokenIsUsable, faults = 0, ~burnt',
         NEW p \in Procs, Others(p), goodAT \subseteq goodAT', UNCHANGED <<stale, early>>,
         closed \subseteq closed',
         \A n \in goodRT : \/ n \in goodRT' \/ owner[n] \in closed
                           \/ proc[p].pc = "rotate" /\ n = proc[p].rt,
         \A a \in Ids : kc'.at[a] \in {kc.at[a], NoId, proc[p].at},
         proc'[p].at \in {NoId} \cup goodAT' \cup stale,
         proc'[p].pc = "rotate" => proc'[p].uid \in closed' \/ proc'[p].rt \in goodRT',
         JustFetched(proc'[p]) => early \/ proc'[p].uid \in closed' \/ proc'[p].at \in goodAT' \ stale
  PROVE  TokenIsUsable'
<1>0. /\ \A q \in Procs :
           /\ proc[q].at \in {NoId} \cup goodAT \cup stale
           /\ proc[q].pc = "rotate" => proc[q].uid \in closed \/ proc[q].rt \in goodRT
           /\ JustFetched(proc[q]) => early \/ proc[q].uid \in closed \/ proc[q].at \in goodAT \ stale
      /\ \A a \in Ids : kc.at[a] \in {NoId} \cup goodAT \cup stale
  BY DEF TokenIsUsable
<1>1. \A a \in Ids : kc'.at[a] \in {NoId} \cup goodAT' \cup stale
  BY <1>0
<1>2. ASSUME NEW q \in Procs, q # p
      PROVE  /\ proc'[q] = proc[q] /\ proc[q].at \in {NoId} \cup goodAT' \cup stale
             /\ proc[q].pc = "rotate" => proc[q].uid \in closed' \/ proc[q].rt \in goodRT'
             /\ JustFetched(proc[q]) =>
                  early \/ proc[q].uid \in closed' \/ proc[q].at \in goodAT' \ stale
  <2>1. proc'[q] = proc[q]
    BY <1>2 DEF Others
  <2>2. proc[q].pc = "rotate" => proc[p].pc # "rotate" /\ TokenOf(proc[q].rt, proc[q].uid) /\ proc[q].rt # NoId
    BY <1>2 DEF LockIsHeld, TokensOwned, ProcessesKnown, ProcessKnown
  <2>3. proc[q].pc = "rotate" => proc[q].uid \in closed' \/ proc[q].rt \in goodRT'
    BY <1>0, <2>2 DEF TokenOf
  <2> QED
    BY <1>0, <2>1, <2>3
<1>3. \A q \in Procs :
        /\ proc'[q].at \in {NoId} \cup goodAT' \cup stale
        /\ proc'[q].pc = "rotate" => proc'[q].uid \in closed' \/ proc'[q].rt \in goodRT'
        /\ JustFetched(proc'[q]) => early \/ proc'[q].uid \in closed' \/ proc'[q].at \in goodAT' \ stale
  BY <1>2
<1> QED
  BY <1>1, <1>3 DEF TokenIsUsable, JustFetched

\* Every step keeps it.
LEMMA UsableStep ==
  ASSUME Typed, TokensOwned, ProcessesKnown, LeavingIsClosed, LockIsHeld, KeysKept,
         StoredTokenIsLive, TokenIsUsable, [Next]_vars
  PROVE  TokenIsUsable'
<1> SUFFICES ASSUME faults' = 0 PROVE TokenIsUsable'
  BY DEF TokenIsUsable
<1>0. /\ \A p \in Procs : ProcessKnown(proc[p]) /\ proc[p] \in Process
      /\ faults \in Nat /\ goodAT \subseteq DOMAIN owner /\ stale \subseteq DOMAIN owner
  BY DEF ProcessesKnown, Typed
<1>f. faults' # faults + 1
  BY <1>0
<1>u. faults = 0 =>
      /\ ~burnt
      /\ \A q \in Procs :
           /\ proc[q].at \in {NoId} \cup goodAT \cup stale
           /\ proc[q].pc = "rotate" => proc[q].uid \in closed \/ proc[q].rt \in goodRT
           /\ JustFetched(proc[q]) => early \/ proc[q].uid \in closed \/ proc[q].at \in goodAT \ stale
      /\ \A a \in Ids : kc.at[a] \in {NoId} \cup goodAT \cup stale
  BY DEF TokenIsUsable
<1>a. \A p \in Procs : \A how : Ended(p, how) => proc'[p].at = NoId /\ proc'[p].pc = "idle"
  BY IdleFields DEF Ended
<1>b. \A p \in Procs : \A how : Failed(p, how) =>
         proc'[p].at \in {NoId, proc[p].at} /\ proc'[p].pc \in {"idle", "forget"}
  BY <1>a DEF Failed, Leaves, Keeps
<1>1. ASSUME NEW p \in Procs, NEW x \in Plans, Start(p, x) PROVE TokenIsUsable'
  <2>1. /\ Others(p) /\ UNCHANGED <<kc, goodRT, goodAT, stale, early, closed, burnt>>
        /\ faults' \in {faults, faults + 1} /\ proc'[p].pc = "begin"
        /\ proc'[p].at = NoId \/ (kc.cur # NoId /\ proc'[p].at \in {NoId, kc.at[kc.cur]})
    BY <1>1, StartEffect DEF Calm, server
  <2>2. faults = 0 /\ (kc.cur # NoId => kc.cur \in Ids)
    BY <1>f, <2>1, AccountsAreIds DEF Typed
  <2>3. proc'[p].at \in {NoId} \cup goodAT' \cup stale /\ ~burnt' /\ ~JustFetched(proc'[p])
    BY <1>u, <2>1, <2>2 DEF JustFetched
  <2> QED
    BY <2>1, <2>2, <2>3, UsableFrom
<1>2. ASSUME NEW p \in Procs,
             BeginStatus(p) \/ BeginPush(p) \/ BeginLogin(p) \/ BeginSignup(p) \/ BeginLeave(p)
      PROVE  TokenIsUsable'
  <2>1. /\ Others(p) /\ Calm /\ closed \subseteq closed' /\ faults' \in {faults, faults + 1}
        /\ \/ Ended(p, "signed_out") \/ Ended(p, "no_keys") \/ Ended(p, "no_recovery_file")
           \/ /\ Keeps(proc[p], proc'[p])
              /\ proc'[p].pc = "forget" \/ (proc'[p].pc = "send" /\ ~proc'[p].refreshed)
    BY <1>2, StatusEffect, PushEffect, LoginEffect, SignupEffect, LeaveEffect DEF Asks, Leaves
  <2>2. UNCHANGED <<kc, goodRT, goodAT, stale, early, burnt>> /\ faults = 0
    BY <1>f, <2>1 DEF Calm, server
  <2>3. /\ proc'[p].at \in {NoId, proc[p].at} /\ ~JustFetched(proc'[p]) /\ proc'[p].pc # "rotate"
    BY <1>a, <2>1 DEF Keeps, JustFetched
  <2> QED
    BY <1>u, <2>1, <2>2, <2>3, UsableFrom
<1>3. ASSUME NEW p \in Procs, Discovery(p) \/ Denied(p) \/ Rejected(p) PROVE TokenIsUsable'
  <2>1. /\ Others(p) /\ Calm /\ UNCHANGED closed /\ faults' \in {faults, faults + 1}
        /\ \/ Failed(p, "auth_required") \/ Failed(p, "rejected") \/ Failed(p, "unreachable")
           \/ Keeps(proc[p], proc'[p]) /\ proc'[p].pc = "lock"
    BY <1>3, RefusalEffect
  <2>2. UNCHANGED <<kc, goodRT, goodAT, stale, early, burnt>> /\ faults = 0
    BY <1>f, <2>1 DEF Calm, server
  <2>3. /\ proc'[p].at \in {NoId, proc[p].at} /\ ~JustFetched(proc'[p]) /\ proc'[p].pc # "rotate"
    BY <1>b, <2>1 DEF Keeps, JustFetched
  <2> QED
    BY <1>u, <2>1, <2>2, <2>3, UsableFrom
<1>4. ASSUME NEW p \in Procs, Accepted(p) PROVE TokenIsUsable'
  <2>1. /\ Others(p) /\ Sending(p) /\ UNCHANGED <<kc, stale, early, burnt, closed, faults>>
        /\ \E a \in Subject(proc[p]) : Serve(proc[p], a) /\ Answered(p, a)
    BY <1>0, <1>4, AcceptedEffect
  <2>2. PICK a \in Subject(proc[p]) : Serve(proc[p], a) /\ Answered(p, a)
    BY <2>1
  <2>3. \A n \in goodRT : n \in goodRT' \/ owner[n] \in closed \/ (proc[p].pc = "rotate" /\ n = proc[p].rt)
    BY <2>1, <2>2, GoodKept
  <2>4. /\ goodAT \subseteq goodAT'
        /\ Request(proc[p]) \in {"signup", "login", "finalize", "refresh"} => Fresh \in goodAT'
    BY <1>0, <2>1, <2>2, ServeIs DEF ProcessKnown, Minted, ServerGrows
  <2>5. Fresh \notin stale
    BY <1>0, AccountsAreIds
  <2>6. \/ proc'[p].at \in {NoId, proc[p].at} /\ ~JustFetched(proc'[p]) /\ proc'[p].pc # "rotate"
        \/ proc'[p].at \in goodAT' \ stale /\ proc'[p].pc # "rotate"
    <3>1. CASE Ended(p, "ok")
      BY <1>a, <3>1 DEF JustFetched
    <3>2. CASE /\ Keeps(proc[p], proc'[p])
               /\ proc'[p].pc = "forget" \/ (proc'[p].pc = "send" /\ ~proc'[p].refreshed)
      BY <3>2 DEF Keeps, JustFetched
    <3>3. CASE /\ proc'[p].at = Fresh /\ proc'[p].pc \in {"keep", "persist"}
               /\ \/ proc[p].pc = "send" /\ proc[p].req \in {"login", "signup", "finalize"}
                  \/ proc[p].pc = "rotate"
      BY <2>4, <2>5, <3>3 DEF Request
    <3> QED
      BY <2>2, <3>1, <3>2, <3>3 DEF Answered, Asks, GivenTokens, Leaves
  <2>7. proc'[p].at \in {NoId} \cup goodAT' \cup stale /\ ~burnt' /\ faults = 0
    BY <1>u, <2>1, <2>4, <2>6
  <2> QED
    BY <2>1, <2>3, <2>4, <2>6, <2>7, UsableFrom
<1>5. ASSUME NEW p \in Procs, Lost(p) \/ Refused(p) \/ Crash(p) PROVE FALSE
  BY <1>f, <1>5, LostEffect, CrashEffect
<1>6. ASSUME NEW p \in Procs, LockRefresh(p) PROVE TokenIsUsable'
  <2>1. /\ Others(p) /\ Calm /\ UNCHANGED closed /\ lock = None /\ proc[p].pc = "lock" /\ faults' = faults
        /\ \/ Failed(p, "auth_required")
           \/ Rereads(p) /\ proc'[p].pc = "send" /\ proc'[p].at # NoId /\ proc'[p].at \notin stale
           \/ Rereads(p) /\ proc'[p].pc = "rotate" /\ proc'[p].rt # NoId
    BY <1>6, <1>f, LockEffect
  <2>2. UNCHANGED <<kc, accounts, goodRT, goodAT, stale, early, burnt>> /\ faults = 0 /\ ~burnt
    BY <1>u, <2>1 DEF Calm, server
  <2>3. proc[p].uid # NoId => proc[p].uid \in Ids /\ proc[p].uid \in DOMAIN accounts
    BY AccountsAreIds DEF Typed
  <2>4. CASE Failed(p, "auth_required")
    <3>1. proc'[p].at \in {NoId, proc[p].at} /\ ~JustFetched(proc'[p]) /\ proc'[p].pc # "rotate"
      BY <1>b, <2>4 DEF JustFetched
    <3> QED
      BY <1>u, <2>1, <2>2, <3>1, UsableFrom
  <2>5. Rereads(p) => proc'[p].at \in {NoId} \cup goodAT \cup stale
    BY <1>u, <2>2, <2>3 DEF Rereads
  <2>6. CASE Rereads(p) /\ proc'[p].pc = "send" /\ proc'[p].at # NoId /\ proc'[p].at \notin stale
    <3>1. proc'[p].at \in goodAT' \ stale
      BY <2>2, <2>5, <2>6
    <3> QED
      BY <2>1, <2>2, <2>6, <3>1, UsableFrom
  <2>7. CASE Rereads(p) /\ proc'[p].pc = "rotate" /\ proc'[p].rt # NoId
    <3>1. ASSUME proc[p].uid = NoId \/ kc.rt[proc[p].uid] = NoId, proc'[p].rt = proc[p].rt
          PROVE  proc[p].uid \in closed
      <4>1. proc[p].uid # NoId
        BY <2>7, <3>1, HolderIsAccount
      <4> QED
        BY <2>1, <3>1, <4>1 DEF KeysKept
    <3>2. ASSUME proc[p].uid # NoId, kc.rt[proc[p].uid] # NoId, proc'[p].rt = kc.rt[proc[p].uid]
          PROVE  proc[p].uid \in closed \/ proc'[p].rt \in goodRT
      <4>1. \A q \in Procs : proc[q].pc # "keep"
        BY <2>1, SessionBounds DEF LockIsHeld
      <4>2. accounts[proc[p].uid].live \/ proc[p].uid \in closed
        BY <2>3, <3>2 DEF LeavingIsClosed
      <4> QED
        BY <2>2, <2>3, <3>2, <4>1, <4>2 DEF StoredTokenIsLive
    <3>3. proc'[p].uid = proc[p].uid /\ (proc[p].uid \in closed \/ proc'[p].rt \in goodRT)
      BY <2>7, <3>1, <3>2 DEF Rereads
    <3>4. ~JustFetched(proc'[p])
      BY <2>7 DEF JustFetched
    <3> QED
      BY <2>1, <2>2, <2>5, <2>7, <3>3, <3>4, UsableFrom
  <2> QED
    BY <2>1, <2>4, <2>6, <2>7
<1>7. ASSUME NEW p \in Procs, Persist(p) \/ KeepTokens(p) \/ Forget(p) PROVE TokenIsUsable'
  <2>1. /\ Others(p) /\ UNCHANGED <<server, stale, early, closed, burnt>> /\ faults' = faults
        /\ \/ Stores(p) /\ proc[p].pc \in {"persist", "keep"}
           \/ Clears(p)
           \/ UNCHANGED kc
        /\ \/ Ended(p, "ok") \/ Ended(p, "keychain")
           \/ /\ Keeps(proc[p], proc'[p])
              /\ \/ proc'[p].pc \in {"persist", "forget"}
                 \/ proc[p].pc = "keep" /\ proc'[p].pc \in {"keep", "send"}
    BY <1>0, <1>7, <1>f, PersistEffect, KeepEffect, ForgetEffect DEF Advances
  <2>2. UNCHANGED <<goodRT, goodAT>> /\ faults = 0 /\ ~burnt'
    BY <1>u, <2>1 DEF server
  <2>3. \/ proc'[p].at = NoId /\ proc'[p].pc = "idle"
        \/ /\ proc'[p].at = proc[p].at /\ proc'[p].uid = proc[p].uid
           /\ JustFetched(proc'[p]) => JustFetched(proc[p])
           /\ proc'[p].pc # "rotate"
    BY <1>a, <2>1 DEF Keeps, JustFetched
  <2>4. \A a \in Ids : kc'.at[a] \in {kc.at[a], NoId, proc[p].at}
    <3>1. CASE Stores(p) /\ proc[p].pc \in {"persist", "keep"}
      <4>1. kc.at \in [Ids -> Nat]
        BY DEF Typed, Keychain
      <4> QED
        BY <3>1, <4>1 DEF Stores
    <3> QED
      BY <2>1, <3>1 DEF Clears
  <2>5. /\ proc'[p].at \in {NoId} \cup goodAT' \cup stale /\ proc'[p].pc # "rotate"
        /\ JustFetched(proc'[p]) =>
              early \/ proc'[p].uid \in closed' \/ proc'[p].at \in goodAT' \ stale
    BY <1>u, <2>1, <2>2, <2>3 DEF JustFetched
  <2> QED
    BY <2>1, <2>2, <2>4, <2>5, UsableFrom
<1>8. ASSUME NEW n \in goodAT, Expire(n) PROVE TokenIsUsable'
  <2>1. /\ UNCHANGED <<proc, kc, goodRT, closed, burnt, faults>>
        /\ goodAT' = goodAT \ {n} /\ stale' = stale \cup {n}
        /\ early' = (early \/ \E p \in Procs : JustFetched(proc[p]) /\ proc[p].at = n)
    BY <1>8 DEF Expire, ghosts
  <2>2. faults = 0
    BY <2>1
  <2>3. \A q \in Procs : JustFetched(proc[q]) =>
           early' \/ proc[q].uid \in closed \/ proc[q].at \in goodAT' \ stale'
    BY <1>u, <2>1, <2>2
  <2>4. /\ \A q \in Procs : proc[q].at \in {NoId} \cup goodAT' \cup stale'
        /\ \A a \in Ids : kc.at[a] \in {NoId} \cup goodAT' \cup stale'
    BY <1>u, <2>1, <2>2
  <2> QED
    BY <1>u, <2>1, <2>2, <2>3, <2>4 DEF TokenIsUsable, JustFetched
<1>9. ASSUME NEW n \in goodAT, Skew(n) PROVE FALSE
  BY <1>f, <1>9 DEF Skew, Fault
<1>10. CASE UNCHANGED vars
  BY <1>10 DEF TokenIsUsable, JustFetched, vars, server, counters, clock, ghosts
<1> QED
  BY <1>1, <1>2, <1>3, <1>4, <1>5, <1>6, <1>7, <1>8, <1>9, <1>10 DEF Next, Step

-----------------------------------------------------------------------------
(* What commands report and upload *)

\* A command that signed in reported the account it signed in to.
SignedInAccount ==
  \A p \in Procs : told[p][1] \in {"login", "signup", "recover"} /\ told[p][2] = "ok" =>
     told[p][3] \in Ids

\* A call without a session gives up for a reason.
Excused(p) == faults' > 0 \/ early \/ proc[p].uid \in closed

\* Who reports success, and who asks for a login.
LEMMA ReportChange ==
  ASSUME Typed, TokensOwned, ProcessesKnown, LeavingIsClosed, TokenIsUsable, [Next]_vars
  PROVE  \/ UNCHANGED told
         \/ \E p \in Procs, how \in Endings :
              /\ Ended(p, how)
              /\ how = "ok" /\ proc[p].cmd \in {"login", "signup", "recover"} =>
                   proc[p].pc = "persist" /\ proc[p].step = 5 /\ Stores(p)
              /\ how = "auth_required" /\ proc[p].cmd \in {"status", "push"} => Excused(p)
<1>0. /\ \A p \in Procs : ProcessKnown(proc[p]) /\ proc[p] \in Process
      /\ faults \in Nat
  BY DEF ProcessesKnown, Typed
<1>a. \A p \in Procs : \A how : Failed(p, how) => UNCHANGED told \/ Ended(p, how)
  BY DEF Failed, Leaves
<1>f. faults + 1 > 0
  BY <1>0
<1>1. ASSUME NEW p \in Procs, NEW x \in Plans, Start(p, x) PROVE UNCHANGED told
  BY <1>1, StartEffect
<1>2. ASSUME NEW p \in Procs,
             BeginStatus(p) \/ BeginPush(p) \/ BeginLogin(p) \/ BeginSignup(p) \/ BeginLeave(p)
      PROVE  UNCHANGED told \/ \E how \in {"signed_out", "no_keys", "no_recovery_file"} : Ended(p, how)
  BY <1>2, StatusEffect, PushEffect, LoginEffect, SignupEffect, LeaveEffect
<1>3. ASSUME NEW p \in Procs, Discovery(p) \/ Denied(p) \/ Rejected(p)
      PROVE  \/ UNCHANGED told \/ Ended(p, "rejected") \/ Ended(p, "unreachable")
             \/ /\ Ended(p, "auth_required")
                /\ proc[p].cmd \in {"status", "push"} => Excused(p)
  <2>1. \/ UNCHANGED told \/ Ended(p, "rejected") \/ Ended(p, "unreachable")
        \/ /\ Ended(p, "auth_required") /\ ~MayRefresh(proc[p]) /\ Subject(proc[p]) = {}
           /\ faults' = faults
    BY <1>3, <1>a, RefusalEffect
  <2>2. Sending(p)
    BY <1>3, RefusalEffect
  <2>3. ASSUME ~MayRefresh(proc[p]), Subject(proc[p]) = {}, faults' = faults,
               proc[p].cmd \in {"status", "push"}
        PROVE  Excused(p)
    <3>1. RequestFits(proc[p]) /\ proc[p].pc \in {"send", "rotate"}
      BY <1>0, <2>2 DEF ProcessKnown, Sending
    <3>2. proc[p].req \in {"me", "post"}
      BY <2>3, <3>1 DEF RequestFits
    <3>3. CASE proc[p].pc = "rotate"
      <4>1. Request(proc[p]) = "refresh"
        BY <3>3 DEF Request
      <4>2. proc[p].rt \notin goodRT
        BY <2>3, <4>1 DEF Subject
      <4> QED
        BY <1>0, <2>3, <3>3, <4>2 DEF TokenIsUsable, Excused
    <3>4. CASE proc[p].pc = "send"
      <4>1. JustFetched(proc[p])
        BY <2>3, <3>2, <3>4 DEF MayRefresh, JustFetched
      <4>2. Request(proc[p]) \in {"me", "post"}
        BY <3>2, <3>4 DEF Request
      <4>3. ~Authorised(proc[p])
        BY <2>3, <4>2 DEF Subject
      <4>4. ASSUME proc[p].at \in goodAT \ stale PROVE proc[p].uid \in closed
        <5>1. Bearer(proc[p]) = proc[p].at
          BY <4>4 DEF Bearer
        <5>2. owner[proc[p].at] = proc[p].uid /\ owner[proc[p].at] \in DOMAIN accounts
          BY <4>4, AccountsAreIds DEF Typed, TokensOwned, TokenOf
        <5>3. ~accounts[proc[p].uid].live
          BY <4>3, <4>4, <5>1, <5>2 DEF Authorised
        <5> QED
          BY <5>2, <5>3 DEF LeavingIsClosed
      <4> QED
        BY <1>0, <2>3, <4>1, <4>4 DEF TokenIsUsable, Excused
    <3> QED
      BY <3>1, <3>3, <3>4
  <2> QED
    BY <2>1, <2>3
<1>4. ASSUME NEW p \in Procs, Accepted(p)
      PROVE  \/ UNCHANGED told
             \/ Ended(p, "ok") /\ proc[p].cmd \notin {"login", "signup", "recover"}
  <2>1. Sending(p) /\ \E a \in Subject(proc[p]) : Serve(proc[p], a) /\ Answered(p, a)
    BY <1>0, <1>4, AcceptedEffect
  <2>2. RequestFits(proc[p])
    BY <1>0, <2>1 DEF ProcessKnown, Sending
  <2>3. UNCHANGED told \/ (Ended(p, "ok") /\ proc[p].req \in {"me", "post"})
    BY <2>1 DEF Answered
  <2> QED
    BY <2>2, <2>3 DEF RequestFits
<1>5. ASSUME NEW p \in Procs, Lost(p) \/ Refused(p)
      PROVE  \/ UNCHANGED told
             \/ /\ \E how \in {"auth_required", "unreachable", "incompatible"} : Ended(p, how)
                /\ Excused(p)
  BY <1>5, <1>a, <1>f, LostEffect DEF Excused
<1>6. ASSUME NEW p \in Procs, LockRefresh(p)
      PROVE  \/ UNCHANGED told
             \/ /\ Ended(p, "auth_required")
                /\ proc[p].cmd \in {"status", "push"} => Excused(p)
  <2>1. \/ UNCHANGED told
        \/ /\ Ended(p, "auth_required")
           /\ faults' = faults + 1 \/ (proc[p].uid # NoId => proc[p].rt = NoId)
    BY <1>6, <1>a, LockEffect
  <2>2. proc[p].cmd \in {"status", "push"} => proc[p].uid # NoId /\ proc[p].rt # NoId
    BY <1>0, <1>6, LockEffect DEF ProcessKnown
  <2> QED
    BY <1>f, <2>1, <2>2 DEF Excused
<1>7. ASSUME NEW p \in Procs, Persist(p)
      PROVE  \/ UNCHANGED told \/ Ended(p, "keychain")
             \/ Ended(p, "ok") /\ proc[p].pc = "persist" /\ proc[p].step = 5 /\ Stores(p)
  BY <1>0, <1>7, PersistEffect DEF Advances
<1>8. ASSUME NEW p \in Procs, KeepTokens(p)
      PROVE  UNCHANGED told \/ (Ended(p, "auth_required") /\ Excused(p))
  BY <1>0, <1>8, <1>a, <1>f, KeepEffect DEF Advances, Excused
<1>9. ASSUME NEW p \in Procs, Forget(p)
      PROVE  \/ UNCHANGED told \/ Ended(p, "keychain")
             \/ Ended(p, "ok") /\ proc[p].cmd \notin {"login", "signup", "recover"}
  <2>1. proc[p].cmd \in {"logout", "delete"}
    BY <1>0, <1>9, ForgetEffect DEF ProcessKnown
  <2> QED
    BY <1>0, <1>9, <2>1, ForgetEffect DEF Advances
<1>10. ASSUME NEW p \in Procs, Crash(p) PROVE Ended(p, "died")
  BY <1>10, CrashEffect
<1>11. ASSUME NEW n, Expire(n) \/ Skew(n) PROVE UNCHANGED told
  BY <1>11 DEF Expire, Skew, ghosts
<1>12. CASE UNCHANGED vars
  BY <1>12 DEF vars, ghosts
<1>13. {"signed_out", "no_keys", "no_recovery_file", "auth_required", "unreachable", "incompatible",
        "rejected", "ok", "keychain", "died"} \subseteq Endings
  BY DEF Endings
<1>14. ASSUME NEW p \in Procs, Step(p)
       PROVE  \/ UNCHANGED told
              \/ \E how \in Endings :
                   /\ Ended(p, how)
                   /\ how = "ok" /\ proc[p].cmd \in {"login", "signup", "recover"} =>
                        proc[p].pc = "persist" /\ proc[p].step = 5 /\ Stores(p)
                   /\ how = "auth_required" /\ proc[p].cmd \in {"status", "push"} => Excused(p)
  <2>1. ASSUME NEW how \in {"signed_out", "no_keys", "no_recovery_file", "auth_required",
                            "unreachable", "incompatible", "rejected", "ok", "keychain", "died"},
               Ended(p, how),
               how = "ok" /\ proc[p].cmd \in {"login", "signup", "recover"} =>
                 proc[p].pc = "persist" /\ proc[p].step = 5 /\ Stores(p),
               how = "auth_required" /\ proc[p].cmd \in {"status", "push"} => Excused(p)
        PROVE  \E h \in Endings :
                 /\ Ended(p, h)
                 /\ h = "ok" /\ proc[p].cmd \in {"login", "signup", "recover"} =>
                      proc[p].pc = "persist" /\ proc[p].step = 5 /\ Stores(p)
                 /\ h = "auth_required" /\ proc[p].cmd \in {"status", "push"} => Excused(p)
    BY <1>13, <2>1
  <2>2. CASE BeginStatus(p) \/ BeginPush(p) \/ BeginLogin(p) \/ BeginSignup(p) \/ BeginLeave(p)
    BY <1>2, <2>1, <2>2
  <2>3. CASE Discovery(p) \/ Denied(p) \/ Rejected(p)
    BY <1>3, <2>1, <2>3
  <2>4. CASE Accepted(p)
    BY <1>4, <2>1, <2>4
  <2>5. CASE Lost(p) \/ Refused(p)
    BY <1>5, <2>1, <2>5
  <2>6. CASE LockRefresh(p)
    BY <1>6, <2>1, <2>6
  <2>7. CASE Persist(p)
    BY <1>7, <2>1, <2>7
  <2>8. CASE KeepTokens(p)
    BY <1>8, <2>1, <2>8
  <2>9. CASE Forget(p)
    BY <1>9, <2>1, <2>9
  <2> QED
    BY <1>14, <2>2, <2>3, <2>4, <2>5, <2>6, <2>7, <2>8, <2>9 DEF Step
<1>15. ASSUME NEW p \in Procs, Crash(p)
       PROVE  \E how \in Endings :
                /\ Ended(p, how)
                /\ how = "ok" /\ proc[p].cmd \in {"login", "signup", "recover"} =>
                     proc[p].pc = "persist" /\ proc[p].step = 5 /\ Stores(p)
                /\ how = "auth_required" /\ proc[p].cmd \in {"status", "push"} => Excused(p)
  BY <1>10, <1>13, <1>15
<1> QED
  BY <1>1, <1>11, <1>12, <1>14, <1>15 DEF Next

\* Faults are counted, an early expiry is remembered.
LEMMA ClockGrows ==
  ASSUME Typed, TokensOwned, ProcessesKnown, [Next]_vars
  PROVE  faults' \in {faults, faults + 1} /\ (early => early')
<1>1. ASSUME NEW p \in Procs, Step(p) \/ Crash(p) \/ \E x \in Plans : Start(p, x)
      PROVE  faults' \in {faults, faults + 1} /\ UNCHANGED early
  BY <1>1 DEF Step, Start, BeginStatus, BeginPush, BeginLogin, BeginSignup, BeginLeave, Discovery,
              Accepted, Denied, Rejected, Lost, Refused, LockRefresh, Persist, KeepTokens, Forget,
              Crash, Fine, Fault, counters, clock
<1>2. ASSUME NEW n, Expire(n) \/ Skew(n)
      PROVE  faults' \in {faults, faults + 1} /\ (early => early')
  <2>1. faults' \in {faults, faults + 1}
    BY <1>2 DEF Expire, Skew, Fault
  <2>2. early => early'
    BY <1>2, Zenon DEF Expire, Skew, counters, clock
  <2> QED
    BY <2>1, <2>2
<1>3. CASE UNCHANGED vars
  BY <1>3 DEF vars, counters, clock
<1> QED
  BY <1>1, <1>2, <1>3 DEF Next

\* Every step keeps the keys of those who signed in.
LEMMA SignedInStep ==
  ASSUME Typed, TokensOwned, ProcessesKnown, LeavingIsClosed, KeysKept, TokenIsUsable,
         SignedInAccount, SignedInHasKeys, [Next]_vars
  PROVE  SignedInAccount' /\ SignedInHasKeys'
<1> DEFINE Good(a) == a \in closed' \/ (kc'.rt[a] # NoId /\ kc'.dek[a] = a /\ kc'.wrapped[a] # <<>>)
           SignIn == {"login", "signup", "recover"}
<1>1. closed \subseteq closed' /\ KeysStay
  BY KeysStayStep
<1>2. told \in [Procs -> (Commands \cup {"none"}) \X Endings \X Nat]
  BY DEF Typed
<1>3. \A q \in Procs : told[q][1] \in SignIn /\ told[q][2] = "ok" => told[q][3] \in Ids /\ Good(told[q][3])
  BY <1>1 DEF SignedInAccount, SignedInHasKeys, KeysStay
<1>4. CASE UNCHANGED told
  BY <1>3, <1>4 DEF SignedInAccount, SignedInHasKeys
<1>5. ASSUME NEW p \in Procs, NEW how \in Endings, Ended(p, how),
             how = "ok" /\ proc[p].cmd \in SignIn =>
               proc[p].pc = "persist" /\ proc[p].step = 5 /\ Stores(p)
      PROVE  SignedInAccount' /\ SignedInHasKeys'
  <2>1. told' = [told EXCEPT ![p] = <<proc[p].cmd, how, proc[p].uid>>]
    BY <1>5 DEF Ended
  <2>2. \A q \in Procs : q # p => told'[q] = told[q]
    BY <1>2, <2>1
  <2>3. /\ told'[p] = <<proc[p].cmd, how, proc[p].uid>>
        /\ told'[p][1] = proc[p].cmd /\ told'[p][2] = how /\ told'[p][3] = proc[p].uid
    BY <1>2, <2>1
  <2>4. ASSUME how = "ok", proc[p].cmd \in SignIn PROVE proc[p].uid \in Ids /\ Good(proc[p].uid)
    <3>1. proc[p].pc = "persist" /\ proc[p].step = 5 /\ Stores(p)
      BY <1>5, <2>4
    <3>2. proc[p].uid \in Ids
      BY <3>1, HolderIsAccount DEF ProcessesKnown, ProcessKnown
    <3>3. PersistedSoFar(proc[p])
      BY DEF KeysKept
    <3>4. proc[p].uid \notin closed => kc.rt[proc[p].uid] # NoId /\ kc.dek[proc[p].uid] = proc[p].uid
      BY <3>1, <3>3 DEF PersistedSoFar
    <3>5. kc'.wrapped[proc[p].uid] # <<>>
      <4>1. kc.wrapped \in [Ids -> WrappedKey \cup {<<>>}]
        BY DEF Typed, Keychain
      <4>2. DeriveKeys(proc[p].pass, proc[p].got) # <<>>
        BY DEF DeriveKeys
      <4> QED
        BY <3>1, <3>2, <4>1, <4>2 DEF Stores
    <3> QED
      BY <1>1, <3>2, <3>4, <3>5 DEF KeysStay
  <2>5. \A q \in Procs : told'[q][1] \in SignIn /\ told'[q][2] = "ok" => told'[q][3] \in Ids /\ Good(told'[q][3])
    BY <1>3, <2>2, <2>3, <2>4
  <2> QED
    BY <2>5 DEF SignedInAccount, SignedInHasKeys
<1> QED
  BY <1>4, <1>5, ReportChange

\* No step reports a sign-out that nobody asked for.
LEMMA SpuriousStep ==
  ASSUME Typed, TokensOwned, ProcessesKnown, LeavingIsClosed, TokenIsUsable, NoSpuriousSignOut,
         [Next]_vars
  PROVE  NoSpuriousSignOut'
<1>1. closed \subseteq closed' /\ faults' \in {faults, faults + 1} /\ (early => early')
  BY KeysStayStep, ClockGrows
<1>2. /\ told \in [Procs -> (Commands \cup {"none"}) \X Endings \X Nat]
      /\ faults \in Nat
  BY DEF Typed
<1>3. faults > 0 => faults' > 0
  BY <1>1, <1>2
<1>4. CASE UNCHANGED told
  BY <1>1, <1>3, <1>4 DEF NoSpuriousSignOut
<1>5. ASSUME NEW p \in Procs, NEW how \in Endings, Ended(p, how),
             how = "auth_required" /\ proc[p].cmd \in {"status", "push"} => Excused(p)
      PROVE  NoSpuriousSignOut'
  <2>1. told' = [told EXCEPT ![p] = <<proc[p].cmd, how, proc[p].uid>>]
    BY <1>5 DEF Ended
  <2>2. \A q \in Procs : q # p => told'[q] = told[q]
    BY <1>2, <2>1
  <2>3. told'[p][1] = proc[p].cmd /\ told'[p][2] = how /\ told'[p][3] = proc[p].uid
    BY <1>2, <2>1
  <2> QED
    BY <1>1, <1>3, <1>5, <2>2, <2>3 DEF NoSpuriousSignOut, Excused
<1> QED
  BY <1>4, <1>5, ReportChange

\* What a step uploads is sealed for the account it goes to.
LEMMA SealedStep ==
  ASSUME Typed, TokensOwned, ProcessesKnown, SealedForOwner, [Next]_vars
  PROVE  SealedForOwner'
<1>0. \A p \in Procs : ProcessKnown(proc[p])
  BY DEF ProcessesKnown
<1>1. ASSUME NEW p \in Procs, Accepted(p) PROVE SealedForOwner'
  <2>1. Sending(p) /\ \E a \in Subject(proc[p]) : Answered(p, a)
    BY <1>0, <1>1, AcceptedEffect
  <2>2. PICK a \in Subject(proc[p]) : Answered(p, a)
    BY <2>1
  <2>3. ASSUME proc[p].pc = "send", proc[p].req = "post" PROVE a = proc[p].got
    <3>1. RequestFits(proc[p]) /\ Request(proc[p]) = "post"
      BY <1>0, <2>3 DEF ProcessKnown, Request
    <3>2. proc[p].at \in goodAT /\ a = owner[proc[p].at]
      BY <2>1, <3>1, SubjectIs
    <3>3. a = proc[p].uid
      BY <3>2, AccountsAreIds DEF Typed, TokensOwned, TokenOf
    <3>4. proc[p].cmd = "push"
      BY <1>0, <2>3, <3>1, ProcessTyped DEF RequestFits, Process, Commands
    <3> QED
      BY <1>0, <2>3, <3>3, <3>4 DEF ProcessKnown
  <2>4. sealed' = sealed \/ (sealed' = sealed \cup {<<a, proc[p].got>>} /\ a = proc[p].got)
    BY <2>2, <2>3 DEF Answered
  <2> QED
    BY <2>4 DEF SealedForOwner
<1>2. ASSUME NEW p \in Procs, Step(p) \/ Crash(p) \/ \E x \in Plans : Start(p, x), ~Accepted(p)
      PROVE  UNCHANGED sealed
  BY <1>2 DEF Step, Start, BeginStatus, BeginPush, BeginLogin, BeginSignup, BeginLeave, Discovery,
              Denied, Rejected, Lost, Refused, LockRefresh, Persist, KeepTokens, Forget, Crash, ghosts
<1>3. ASSUME NEW n, Expire(n) \/ Skew(n) PROVE UNCHANGED sealed
  BY <1>3 DEF Expire, Skew, ghosts
<1>4. CASE UNCHANGED vars
  BY <1>4 DEF vars, ghosts, SealedForOwner
<1>5. UNCHANGED sealed => SealedForOwner'
  BY DEF SealedForOwner
<1> QED
  BY <1>1, <1>2, <1>3, <1>4, <1>5 DEF Next

-----------------------------------------------------------------------------
(* Retries *)

\* No request is repeated more often than the policy allows.
TriesBounded == \A p \in Procs : proc[p].tries \in 0..MaxRetries

\* What a step makes of the number of tries.
Tries(p) ==
  \/ proc'[p].tries \in {0, proc[p].tries}
  \/ proc[p].tries < MaxRetries /\ proc'[p].tries = proc[p].tries + 1

\* No step tries more often than the client allows.
LEMMA TriesStep ==
  ASSUME Typed, TriesBounded, [Next]_vars
  PROVE  TriesBounded'
<1>a. ASSUME NEW p \in Procs, NEW how, End(p, how) PROVE Others(p) /\ Tries(p)
  BY <1>a, EndIs, IdleFields DEF Ended, Tries
<1>b. ASSUME NEW p \in Procs, NEW how, Fail(p, how) PROVE Others(p) /\ Tries(p)
  <2>1. CASE proc[p].cmd = "logout"
    <3>1. proc'[p] = Forgetting(proc[p]) /\ Others(p)
      BY <1>b, <2>1, SetOne DEF Fail
    <3> QED
      BY <3>1, ProcessTyped DEF Forgetting, Process, Tries
  <2>2. CASE proc[p].cmd # "logout"
    BY <1>a, <1>b, <2>2 DEF Fail
  <2> QED
    BY <2>1, <2>2
<1>c. ASSUME NEW p \in Procs, NEW r, NEW req, Set(p, Ask(r, req)),
             r = proc[p] \/ \E v : r = [proc[p] EXCEPT !.got = v]
      PROVE  Others(p) /\ Tries(p)
  <2>1. proc'[p] = Ask(r, req) /\ Others(p)
    BY <1>c, SetOne
  <2> QED
    BY <1>c, <2>1, ProcessTyped DEF Ask, Process, Tries
<1>d. ASSUME NEW p \in Procs, NEW r, Set(p, r), r.tries \in {0, proc[p].tries}
      PROVE  Others(p) /\ Tries(p)
  BY <1>d, SetOne DEF Tries
<1>e. ASSUME NEW p \in Procs
      PROVE  /\ Forgetting(proc[p]).tries = proc[p].tries
             /\ [proc[p] EXCEPT !.step = @ + 1, !.ok = FALSE].tries = proc[p].tries
             /\ [proc[p] EXCEPT !.pc = "send", !.refreshed = TRUE].tries = proc[p].tries
  BY ProcessTyped DEF Forgetting, Process
<1>1. ASSUME NEW p \in Procs, NEW x \in Plans, Start(p, x) PROVE Others(p) /\ Tries(p)
  <2> DEFINE r == [Idle EXCEPT !.pc = "begin", !.cmd = x.cmd, !.email = x.email, !.pass = x.pass]
  <2>1. r.tries = 0 /\ HydrateFromCurrent(r).tries = 0
    BY DEF Idle, HydrateFromCurrent, Hydrated
  <2>2. Set(p, HydrateFromCurrent(r)) \/ Set(p, r)
    BY <1>1 DEF Start
  <2> HIDE DEF r
  <2> QED
    BY <2>1, <2>2, SetOne DEF Tries
<1>2. ASSUME NEW p \in Procs, BeginStatus(p) \/ BeginPush(p) \/ BeginLogin(p) \/ BeginSignup(p)
      PROVE  Others(p) /\ Tries(p)
  BY <1>2, <1>a, <1>c DEF BeginStatus, BeginPush, BeginLogin, BeginSignup
<1>3. ASSUME NEW p \in Procs, BeginLeave(p) PROVE Others(p) /\ Tries(p)
  <2>1. Set(p, Forgetting(proc[p])) \/ Set(p, Ask(proc[p], "delete")) \/ Set(p, Ask(proc[p], "logout"))
    BY <1>3 DEF BeginLeave
  <2>2. CASE Set(p, Forgetting(proc[p]))
    BY <1>d, <1>e, <2>2
  <2> QED
    BY <1>c, <2>1, <2>2
<1>4. ASSUME NEW p \in Procs, Discovery(p) \/ Denied(p) \/ Rejected(p) \/ Refused(p)
      PROVE  Others(p) /\ Tries(p)
  <2>1. (\E how : Fail(p, how)) \/ Set(p, [proc[p] EXCEPT !.pc = "lock"])
    BY <1>4 DEF Discovery, Denied, Rejected, Refused
  <2>2. CASE Set(p, [proc[p] EXCEPT !.pc = "lock"])
    BY <2>2, SetOne, ProcessTyped DEF Process, Tries
  <2> QED
    BY <1>b, <2>1, <2>2
<1>5. ASSUME NEW p \in Procs, Accepted(p) PROVE Others(p) /\ Tries(p)
  <2>1. \/ End(p, "ok")
        \/ \E v, req : Set(p, Ask([proc[p] EXCEPT !.got = v], req))
        \/ \E a, pc : Set(p, Signed(proc[p], a, pc))
        \/ Set(p, Forgetting(proc[p]))
    BY <1>5 DEF Accepted, Proceed
  <2>2. ASSUME NEW v, NEW req, Set(p, Ask([proc[p] EXCEPT !.got = v], req)) PROVE Others(p) /\ Tries(p)
    BY <1>c, <2>2
  <2>3. ASSUME NEW a, NEW pc, Set(p, Signed(proc[p], a, pc)) PROVE Others(p) /\ Tries(p)
    <3>1. Signed(proc[p], a, pc).tries = proc[p].tries
      BY ProcessTyped DEF Signed, Process
    <3> QED
      BY <1>d, <2>3, <3>1
  <2>4. CASE Set(p, Forgetting(proc[p]))
    BY <1>d, <1>e, <2>4
  <2> QED
    BY <1>a, <2>1, <2>2, <2>3, <2>4
<1>6. ASSUME NEW p \in Procs, Lost(p) PROVE Others(p) /\ Tries(p)
  <2>1. \/ proc[p].tries < MaxRetries /\ Set(p, [proc[p] EXCEPT !.tries = @ + 1])
        \/ \E how : Fail(p, how)
    BY <1>6 DEF Lost
  <2>2. CASE proc[p].tries < MaxRetries /\ Set(p, [proc[p] EXCEPT !.tries = @ + 1])
    BY <2>2, SetOne, ProcessTyped DEF Process, Tries
  <2> QED
    BY <1>b, <2>1, <2>2
<1>7. ASSUME NEW p \in Procs, LockRefresh(p) PROVE Others(p) /\ Tries(p)
  <2> DEFINE r == Rehydrated(proc[p])
  <2>1. r \in Process /\ r.tries = proc[p].tries
    <3>1. proc[p] \in Process /\ proc[p].uid \in {NoId} \cup DOMAIN accounts
      BY DEF Typed
    <3>2. r \in Process
      BY <3>1, RehydratedFields
    <3>3. r.tries = proc[p].tries
      BY <3>1 DEF Rehydrated, Hydrated, Process
    <3> QED
      BY <3>2, <3>3
  <2>2. \/ Set(p, [r EXCEPT !.pc = "send", !.refreshed = TRUE])
        \/ Set(p, [r EXCEPT !.pc = "rotate", !.tries = 0])
        \/ \E how : Fail(p, how)
    BY <1>7 DEF LockRefresh
  <2> HIDE DEF r
  <2>3. CASE Set(p, [r EXCEPT !.pc = "send", !.refreshed = TRUE])
    <3>1. [r EXCEPT !.pc = "send", !.refreshed = TRUE].tries = proc[p].tries
      BY <2>1 DEF Process
    <3> QED
      BY <1>d, <2>3, <3>1
  <2>4. CASE Set(p, [r EXCEPT !.pc = "rotate", !.tries = 0])
    <3>1. [r EXCEPT !.pc = "rotate", !.tries = 0].tries = 0
      BY <2>1 DEF Process
    <3> QED
      BY <1>d, <2>4, <3>1
  <2> QED
    BY <1>b, <2>2, <2>3, <2>4
<1>8. ASSUME NEW p \in Procs, Persist(p) \/ KeepTokens(p) \/ Forget(p) \/ Crash(p)
      PROVE  Others(p) /\ Tries(p)
  <2>1. \/ Set(p, [proc[p] EXCEPT !.step = @ + 1])
        \/ Set(p, [proc[p] EXCEPT !.step = @ + 1, !.ok = FALSE])
        \/ Set(p, [proc[p] EXCEPT !.pc = "send", !.refreshed = TRUE])
        \/ \E how : Fail(p, how) \/ End(p, how)
    BY <1>8 DEF Persist, KeepTokens, Forget, Crash
  <2>2. CASE Set(p, [proc[p] EXCEPT !.step = @ + 1])
    BY <2>2, SetOne, ProcessTyped DEF Process, Tries
  <2>3. CASE Set(p, [proc[p] EXCEPT !.step = @ + 1, !.ok = FALSE])
    BY <1>d, <1>e, <2>3
  <2>4. CASE Set(p, [proc[p] EXCEPT !.pc = "send", !.refreshed = TRUE])
    BY <1>d, <1>e, <2>4
  <2> QED
    BY <1>a, <1>b, <2>1, <2>2, <2>3, <2>4
<1>9. ASSUME NEW p \in Procs, Others(p), Tries(p) PROVE TriesBounded'
  <2>1. \A q \in Procs : proc[q].tries \in 0..MaxRetries
    BY DEF TriesBounded
  <2>2. proc'[p].tries \in 0..MaxRetries
    BY <1>9, <2>1, SessionBounds DEF Tries
  <2> QED
    BY <1>9, <2>1, <2>2 DEF TriesBounded, Others
<1>10. UNCHANGED proc => TriesBounded'
  BY DEF TriesBounded
<1>11. ASSUME NEW n, Expire(n) \/ Skew(n) PROVE UNCHANGED proc
  BY <1>11 DEF Expire, Skew
<1> QED
  BY <1>1, <1>2, <1>3, <1>4, <1>5, <1>6, <1>7, <1>8, <1>9, <1>10, <1>11 DEF Next, Step, vars

-----------------------------------------------------------------------------
(* The inductive invariant and what follows from it *)

Invariant ==
  /\ Typed /\ TriesBounded /\ TokensOwned /\ ProcessesKnown /\ LockIsHeld /\ LeavingIsClosed
  /\ NewTokenIsGood /\ KeysKept /\ StoredTokenIsLive /\ TokenIsUsable
  /\ SignedInAccount /\ SignedInHasKeys /\ NoSpuriousSignOut /\ SealedForOwner

\* The invariant holds before the first command.
LEMMA InvariantInit == Init => Invariant
<1> SUFFICES ASSUME Init PROVE Invariant
  OBVIOUS
<1>1. /\ accounts = <<>> /\ owner = <<>> /\ goodRT = {} /\ goodAT = {} /\ ticket = {}
      /\ lock = None /\ stale = {} /\ faults = 0 /\ salts = 0 /\ ~burnt /\ ~early
      /\ closed = {} /\ sealed = {}
  BY DEF Init
<1>2. \A p \in Procs : proc[p] = Idle
  BY DEF Init
<1>3. \A p \in Procs : told[p] = <<"none", "none", NoId>> /\ told[p][1] = "none"
  BY DEF Init
<1>4. /\ kc.cur = NoId
      /\ \A a \in Ids : kc.rt[a] = NoId /\ kc.at[a] = NoId /\ kc.dek[a] = NoId
  BY DEF Init
<1>5. kc \in Keychain
  <2>1. NoId \in Nat
    BY DEF NoId
  <2> QED
    BY <2>1 DEF Init, Keychain
<1>6. told \in [Procs -> (Commands \cup {"none"}) \X Endings \X Nat]
  <2>1. <<"none", "none", NoId>> \in (Commands \cup {"none"}) \X Endings \X Nat
    BY DEF Endings, NoId
  <2> QED
    BY <2>1 DEF Init
<1>7. proc \in [Procs -> Process]
  BY IdleFields DEF Init
<1>8. DOMAIN accounts = {} /\ DOMAIN owner = {}
  BY <1>1
<1>9. Typed
  <2>1. accounts \in Seq(Account) /\ Len(accounts) <= MaxAccounts /\ owner \in Seq(Nat)
    BY <1>1, SessionBounds
  <2>2. \A p \in Procs : proc[p].uid = NoId
    BY <1>2, IdleFields
  <2> QED
    BY <1>1, <1>4, <1>5, <1>6, <1>7, <1>8, <2>1, <2>2 DEF Typed
<1>10. TriesBounded
  BY <1>2, IdleFields, SessionBounds DEF TriesBounded
<1>11. TokensOwned
  BY <1>2, <1>4, IdleFields DEF TokensOwned, TokenOf
<1>12. ProcessesKnown
  BY <1>2, IdleFields DEF ProcessesKnown, ProcessKnown
<1>13. LockIsHeld
  BY <1>1, <1>2, IdleFields, SessionBounds DEF LockIsHeld
<1>14. LeavingIsClosed
  BY <1>2, <1>8, IdleFields DEF LeavingIsClosed
<1>15. NewTokenIsGood
  BY <1>2, IdleFields DEF NewTokenIsGood, Unstored
<1>16. KeysKept
  BY <1>2, IdleFields DEF KeysKept, PersistedSoFar
<1>17. StoredTokenIsLive
  BY <1>8 DEF StoredTokenIsLive
<1>18. TokenIsUsable
  BY <1>1, <1>2, <1>4, IdleFields DEF TokenIsUsable, JustFetched
<1>19. SignedInAccount /\ SignedInHasKeys /\ NoSpuriousSignOut
  BY <1>3 DEF SignedInAccount, SignedInHasKeys, NoSpuriousSignOut
<1>20. SealedForOwner
  BY <1>1 DEF SealedForOwner
<1> QED
  BY <1>9, <1>10, <1>11, <1>12, <1>13, <1>14, <1>15, <1>16, <1>17, <1>18, <1>19, <1>20
     DEF Invariant

\* Every step of every process keeps the invariant.
LEMMA InvariantStep == Invariant /\ [Next]_vars => Invariant'
<1> SUFFICES ASSUME Invariant, [Next]_vars PROVE Invariant'
  OBVIOUS
<1> USE DEF Invariant
<1>1. Typed'
  BY TypedStep
<1>2. TokensOwned'
  BY OwnedStep
<1>3. ProcessesKnown'
  BY KnownStep
<1>4. LockIsHeld'
  BY LockStep
<1>5. LeavingIsClosed'
  BY LeavingStep
<1>6. NewTokenIsGood'
  BY NewStep
<1>7. KeysKept'
  BY KeysStep
<1>8. StoredTokenIsLive'
  BY <1>1, LiveStep
<1>9. TokenIsUsable'
  BY UsableStep
<1>10. SignedInAccount' /\ SignedInHasKeys'
  BY SignedInStep
<1>11. NoSpuriousSignOut'
  BY SpuriousStep
<1>12. SealedForOwner'
  BY SealedStep
<1>13. TriesBounded'
  BY TriesStep
<1> QED
  BY <1>1, <1>2, <1>3, <1>4, <1>5, <1>6, <1>7, <1>8, <1>9, <1>10, <1>11, <1>12, <1>13

\* Every reachable state satisfies the inductive invariant.
THEOREM InvariantCorrect == Spec => []Invariant
<1>1. Init => Invariant
  BY InvariantInit
<1>2. Invariant /\ [Next]_vars => Invariant'
  BY InvariantStep
<1> QED
  BY <1>1, <1>2, PTL DEF Spec

\* Tokens, keys, processes and the lock have their types, for every number of
\* processes and accounts; no request is repeated more often than MaxRetries.
THEOREM SessionTypeCorrect == Spec => []SessionTypeOK
<1>1. Invariant => SessionTypeOK
  <2> SUFFICES ASSUME Invariant PROVE SessionTypeOK
    OBVIOUS
  <2>1. Typed /\ TriesBounded /\ TokensOwned /\ LockIsHeld
    BY DEF Invariant
  <2>2. /\ DOMAIN accounts = 1..Len(accounts) /\ Len(accounts) \in Nat
        /\ DOMAIN owner = 1..Len(owner) /\ Len(owner) \in Nat
    BY <2>1, AccountsAreIds
  <2>3. \A n, a : TokenOf(n, a) => n \in 0..Len(owner)
    BY <2>2 DEF TokenOf, NoId
  <2>4. \A a \in Ids : kc.rt[a] \in 0..Len(owner) /\ kc.at[a] \in 0..Len(owner) /\ kc.dek[a] \in {NoId, a}
    BY <2>1, <2>3 DEF TokensOwned
  <2>5. \A u : u \in {NoId} \cup DOMAIN accounts => u \in 0..Len(accounts)
    BY <2>2 DEF NoId
  <2>6. /\ kc.cur \in 0..Len(accounts) /\ ticket \subseteq DOMAIN accounts
        /\ goodRT \cup goodAT \cup stale \subseteq DOMAIN owner
        /\ \A n \in DOMAIN owner : owner[n] \in DOMAIN accounts
        /\ \A p \in Procs : proc[p].uid \in 0..Len(accounts)
    BY <2>1, <2>5 DEF Typed
  <2> QED
    BY <2>1, <2>4, <2>6 DEF SessionTypeOK, TriesBounded, LockIsHeld
<1> QED
  BY <1>1, InvariantCorrect, PTL

\* However many processes log in, refresh, retry and crash, a refresh token in
\* the keychain that the service no longer accepts is one the user signed out
\* of, one that is just being replaced, or one whose successor was lost.
THEOREM StoredTokenIsLiveCorrect == Spec => []StoredTokenIsLive
<1>1. Invariant => StoredTokenIsLive
  BY DEF Invariant
<1> QED
  BY <1>1, InvariantCorrect, PTL

\* A login that succeeded keeps its refresh token and both keys in the keychain
\* until somebody leaves the account.
THEOREM SignedInHasKeysCorrect == Spec => []SignedInHasKeys
<1>1. Invariant => SignedInHasKeys
  BY DEF Invariant
<1> QED
  BY <1>1, InvariantCorrect, PTL

\* Without a fault no call of a signed-in process ends with the request to log in.
THEOREM NoSpuriousSignOutCorrect == Spec => []NoSpuriousSignOut
<1>1. Invariant => NoSpuriousSignOut
  BY DEF Invariant
<1> QED
  BY <1>1, InvariantCorrect, PTL

\* An upload goes to the account whose key sealed it, whoever logs in meanwhile.
THEOREM SealedForOwnerCorrect == Spec => []SealedForOwner
<1>1. Invariant => SealedForOwner
  BY DEF Invariant
<1> QED
  BY <1>1, InvariantCorrect, PTL

-----------------------------------------------------------------------------
(*                               The pool                               *)

-----------------------------------------------------------------------------
(* The inductive invariant *)

\* Only a worker that has sent its error cancels the context.
CancelledAfterError == running /\ cancelled => errCh # <<>>

\* A worker fails with the context's error only once it is cancelled.
CanceledNeedsCancel ==
  \A w \in Workers : running /\ err[w] = "canceled" => cancelled

\* A worker leaves because the channel is closed or after sending an error.
ExitHasReason ==
  \A w \in Workers : running =>
    /\ st[w] = "reported" => errCh # <<>>
    /\ st[w] = "exited" => workClosed \/ errCh # <<>>

\* The channel is closed at the end of the list or on cancellation.
CloseHasReason == running /\ workClosed => sent = N \/ cancelled

\* An item handed out is done, in a worker's hands, or there is an error.
HandedOut ==
  running => \A i \in 1..sent :
    \/ i \in done
    \/ \E w \in Workers : st[w] \in Holding /\ item[w] = i
    \/ errCh # <<>>

\* A running call has not returned.
NotYetReturned == running => outcome = "none"

PoolInv ==
  /\ PoolTypeOK /\ FirstErrorIsTheCause /\ OkMeansAll
  /\ CancelledAfterError /\ CanceledNeedsCancel /\ ExitHasReason
  /\ CloseHasReason /\ HandedOut /\ NotYetReturned

-----------------------------------------------------------------------------
\* The initial state satisfies the inductive invariant.
LEMMA PoolInvInit == PoolInit => PoolInv
<1> SUFFICES ASSUME PoolInit PROVE PoolInv
  OBVIOUS
<1>1. PoolTypeOK
  <2>1. st \in [Workers -> {"exited"}] /\ err \in [Workers -> {"none"}]
    BY DEF PoolInit
  <2>2. item \in [Workers -> 0..N] /\ attempt \in [Workers -> 0..Retries] /\ sent \in 0..N
    BY SizesAssumption DEF PoolInit
  <2>3. errCh \in Seq(Errors) /\ done \subseteq Items /\ success \in Nat /\ failed \in Nat
    BY DEF PoolInit
  <2>4. \A w \in Workers : st[w] = "exited"
    BY DEF PoolInit
  <2> QED
    BY <2>1, <2>2, <2>3, <2>4 DEF PoolInit, PoolTypeOK, Holding
<1>2. FirstErrorIsTheCause /\ OkMeansAll
  BY DEF PoolInit, FirstErrorIsTheCause, OkMeansAll
<1> QED
  BY <1>1, <1>2 DEF PoolInit, PoolInv, CancelledAfterError, CanceledNeedsCancel,
     ExitHasReason, CloseHasReason, HandedOut, NotYetReturned

\* Every step of the pool keeps the types (putParallel, upload.go:492-550).
LEMMA PoolTypeStep == PoolTypeOK /\ [PoolNext]_poolVars => PoolTypeOK'
<1> SUFFICES ASSUME PoolTypeOK, [PoolNext]_poolVars PROVE PoolTypeOK'
  OBVIOUS
<1> USE SizesAssumption DEF PoolTypeOK, Items, Holding, Errors
<1>1. CASE PoolStart
  <2>1. st' \in [Workers -> {"range"}] /\ err' \in [Workers -> {"none"}]
    BY <1>1 DEF PoolStart
  <2>2. item' \in [Workers -> 0..N] /\ attempt' \in [Workers -> 0..Retries] /\ sent' \in 0..N
    BY <1>1 DEF PoolStart
  <2>3. errCh' \in Seq(Errors) /\ done' \subseteq Items /\ success' \in Nat /\ failed' \in Nat
    BY <1>1 DEF PoolStart
  <2>4. \A w \in Workers : st'[w] = "range"
    BY <1>1 DEF PoolStart
  <2> QED
    BY <1>1, <2>1, <2>2, <2>3, <2>4 DEF PoolStart
<1>2. CASE ProducerStop
  BY <1>2 DEF ProducerStop, worker
<1>3. CASE PoolReturn
  <2>1. outcome' \in Errors \cup {"ok"}
    BY <1>3 DEF PoolReturn
  <2>2. /\ running' = FALSE /\ cancelled' = TRUE
        /\ UNCHANGED <<sent, workClosed, st, item, attempt, err, errCh, done, success, failed>>
    BY <1>3 DEF PoolReturn, worker
  <2> QED
    BY <2>1, <2>2
<1>4. CASE PoolKilled
  BY <1>4 DEF PoolKilled, worker
<1>5. ASSUME NEW w \in Workers, Take(w) PROVE PoolTypeOK'
  BY <1>5 DEF Take
<1>6. ASSUME NEW w \in Workers, RangeEnds(w) PROVE PoolTypeOK'
  BY <1>6 DEF RangeEnds
<1>7. ASSUME NEW w \in Workers, Succeed(w) PROVE PoolTypeOK'
  <2>1. item[w] \in 1..N
    BY <1>7 DEF Succeed
  <2>2. done' \subseteq 1..N
    BY <1>7, <2>1 DEF Succeed
  <2>3. success' \in Nat
    BY <1>7 DEF Succeed
  <2> QED
    BY <1>7, <2>2, <2>3 DEF Succeed
<1>8. ASSUME NEW w \in Workers, BackoffEnds(w) PROVE PoolTypeOK'
  BY <1>8 DEF BackoffEnds
<1>9. ASSUME NEW w \in Workers, ReportError(w) PROVE PoolTypeOK'
  <2>1. errCh' \in Seq(Errors)
    BY <1>9 DEF ReportError
  <2>2. failed' \in Nat
    BY <1>9 DEF ReportError
  <2> QED
    BY <1>9, <2>1, <2>2 DEF ReportError
<1>10. ASSUME NEW w \in Workers, CancelAndExit(w) PROVE PoolTypeOK'
  BY <1>10 DEF CancelAndExit
<1>11. ASSUME NEW w \in Workers, NEW e \in Errors, RequestFails(w, e) PROVE PoolTypeOK'
  <2>1. CASE TriesAgain(w, e)
    <3>1. attempt[w] + 1 \in 0..Retries
      BY <2>1 DEF TriesAgain
    <3> QED
      BY <1>11, <2>1, <3>1 DEF RequestFails
  <2>2. CASE ~TriesAgain(w, e)
    BY <1>11, <2>2 DEF RequestFails
  <2> QED
    BY <2>1, <2>2
<1>12. CASE UNCHANGED poolVars
  BY <1>12 DEF poolVars, worker
<1> QED
  BY <1>1, <1>2, <1>3, <1>4, <1>5, <1>6, <1>7, <1>8, <1>9, <1>10, <1>11, <1>12
     DEF PoolNext

\* Every step of the pool keeps the inductive invariant.
LEMMA PoolInvStep == PoolInv /\ [PoolNext]_poolVars => PoolInv'
<1> SUFFICES ASSUME PoolInv, [PoolNext]_poolVars PROVE PoolInv'
  OBVIOUS
<1>t. PoolTypeOK /\ PoolTypeOK'
  BY PoolTypeStep DEF PoolInv
<1> USE SizesAssumption DEF FirstErrorIsTheCause, OkMeansAll, CancelledAfterError,
    CanceledNeedsCancel, ExitHasReason, CloseHasReason, HandedOut, NotYetReturned
<1>1. CASE PoolStart
  BY <1>1, <1>t DEF PoolStart, PoolInv
<1>2. CASE ProducerStop
  BY <1>2, <1>t DEF ProducerStop, worker, PoolInv, PoolTypeOK
<1>3. CASE PoolReturn
  <2>1. FirstErrorIsTheCause'
    BY <1>3 DEF PoolReturn, PoolInv
  <2>2. OkMeansAll'
    <3> SUFFICES ASSUME outcome' = "ok" PROVE done = Items
      BY <1>3 DEF PoolReturn
    <3>1. errCh = <<>>
      <4>1. errCh # <<>> => Head(errCh) \in Errors
        BY <1>t DEF PoolTypeOK
      <4>2. "ok" \notin Errors
        BY DEF Errors
      <4> QED
        BY <1>3, <4>1, <4>2 DEF PoolReturn
    <3>2. ~cancelled
      BY <1>3, <3>1 DEF PoolReturn, PoolInv
    <3>3. workClosed
      BY <1>3, <3>1, WorkersAssumption DEF PoolReturn, PoolInv
    <3>4. sent = N
      BY <1>3, <3>2, <3>3 DEF PoolReturn, PoolInv
    <3>5. \A w \in Workers : st[w] \notin Holding
      BY <1>3 DEF PoolReturn, Holding
    <3>6. \A i \in 1..N : i \in done
      BY <1>3, <3>1, <3>4, <3>5 DEF PoolReturn, PoolInv
    <3> QED
      BY <3>6, <1>t DEF PoolTypeOK, Items
  <2> QED
    BY <1>3, <1>t, <2>1, <2>2 DEF PoolReturn, PoolInv
<1>4. CASE PoolKilled
  BY <1>4, <1>t DEF PoolKilled, worker, PoolInv
<1>5. ASSUME NEW w \in Workers, Take(w) PROVE PoolInv'
  <2>1. HandedOut'
    <3> SUFFICES ASSUME NEW i \in 1..sent', errCh = <<>>, i \notin done
                 PROVE  \E v \in Workers : st'[v] \in Holding /\ item'[v] = i
      BY <1>5 DEF Take
    <3>1. CASE i = sent + 1
      <4>1. st'[w] \in Holding /\ item'[w] = i
        BY <1>5, <3>1, <1>t DEF Take, PoolTypeOK, Holding
      <4> QED
        BY <4>1
    <3>2. CASE i # sent + 1
      <4>1. i \in 1..sent
        BY <1>5, <3>2, <1>t DEF Take, PoolTypeOK
      <4>2. PICK v \in Workers : st[v] \in Holding /\ item[v] = i
        BY <1>5, <4>1 DEF Take, PoolInv
      <4>3. v # w
        BY <1>5, <4>2 DEF Take, Holding
      <4> QED
        BY <1>5, <4>2, <4>3, <1>t DEF Take, PoolTypeOK
    <3> QED
      BY <3>1, <3>2
  <2>2. CanceledNeedsCancel'
    BY <1>5, <1>t DEF Take, PoolInv, PoolTypeOK
  <2>3. ExitHasReason'
    BY <1>5, <1>t DEF Take, PoolInv, PoolTypeOK
  <2> QED
    BY <1>5, <1>t, <2>1, <2>2, <2>3 DEF Take, PoolInv
<1>6. ASSUME NEW w \in Workers, RangeEnds(w) PROVE PoolInv'
  <2>1. HandedOut'
    BY <1>6, <1>t DEF RangeEnds, PoolInv, PoolTypeOK, Holding
  <2>2. ExitHasReason'
    BY <1>6, <1>t DEF RangeEnds, PoolInv, PoolTypeOK
  <2> QED
    BY <1>6, <1>t, <2>1, <2>2 DEF RangeEnds, PoolInv
<1>7. ASSUME NEW w \in Workers, Succeed(w) PROVE PoolInv'
  <2>1. HandedOut'
    <3> SUFFICES ASSUME NEW i \in 1..sent, errCh = <<>>, i \notin done'
                 PROVE  \E v \in Workers : st'[v] \in Holding /\ item'[v] = i
      BY <1>7 DEF Succeed
    <3>1. PICK v \in Workers : st[v] \in Holding /\ item[v] = i
      BY <1>7 DEF Succeed, PoolInv
    <3>2. v # w
      BY <1>7, <3>1 DEF Succeed
    <3> QED
      BY <1>7, <3>1, <3>2, <1>t DEF Succeed, PoolTypeOK
  <2>2. ExitHasReason'
    BY <1>7, <1>t DEF Succeed, PoolInv, PoolTypeOK
  <2> QED
    BY <1>7, <1>t, <2>1, <2>2 DEF Succeed, PoolInv
<1>8. ASSUME NEW w \in Workers, BackoffEnds(w) PROVE PoolInv'
  <2>1. HandedOut'
    BY <1>8, <1>t DEF BackoffEnds, PoolInv, PoolTypeOK, Holding
  <2>2. ExitHasReason' /\ CanceledNeedsCancel'
    BY <1>8, <1>t DEF BackoffEnds, PoolInv, PoolTypeOK
  <2> QED
    BY <1>8, <1>t, <2>1, <2>2 DEF BackoffEnds, PoolInv
<1>9. ASSUME NEW w \in Workers, ReportError(w) PROVE PoolInv'
  <2>1. errCh' # <<>>
    BY <1>9, <1>t DEF ReportError, PoolTypeOK
  <2>2. FirstErrorIsTheCause'
    <3>1. CASE errCh = <<>>
      <4>1. err[w] # "canceled"
        BY <1>9, <3>1 DEF ReportError, PoolInv
      <4>2. Head(errCh') = err[w]
        BY <1>9, <3>1, <1>t DEF ReportError, PoolTypeOK
      <4> QED
        BY <4>1, <4>2
    <3>2. CASE errCh # <<>>
      <4>1. Head(errCh') = Head(errCh)
        BY <1>9, <3>2, <1>t DEF ReportError, PoolTypeOK
      <4> QED
        BY <3>2, <4>1 DEF PoolInv
    <3> QED
      BY <3>1, <3>2
  <2> QED
    BY <1>9, <1>t, <2>1, <2>2 DEF ReportError, PoolInv
<1>10. ASSUME NEW w \in Workers, CancelAndExit(w) PROVE PoolInv'
  <2>1. errCh # <<>>
    BY <1>10 DEF CancelAndExit, PoolInv
  <2>2. HandedOut' /\ ExitHasReason'
    BY <1>10, <1>t, <2>1 DEF CancelAndExit, PoolInv, PoolTypeOK
  <2>3. cancelled' = TRUE /\ errCh' # <<>>
    BY <1>10, <2>1 DEF CancelAndExit
  <2>4. FirstErrorIsTheCause' /\ OkMeansAll' /\ NotYetReturned'
    BY <1>10 DEF CancelAndExit, PoolInv
  <2> QED
    BY <1>t, <2>2, <2>3, <2>4 DEF PoolInv
<1>11. ASSUME NEW w \in Workers, NEW e \in Errors, RequestFails(w, e) PROVE PoolInv'
  <2>1. HandedOut'
    <3>1. \A v \in Workers : st[v] \in Holding => st'[v] \in Holding
      BY <1>11, <1>t DEF RequestFails, PoolTypeOK, Holding
    <3>2. UNCHANGED <<running, sent, done, item, errCh>>
      BY <1>11 DEF RequestFails
    <3> QED
      BY <3>1, <3>2 DEF PoolInv
  <2>2. ExitHasReason' /\ CanceledNeedsCancel'
    BY <1>11, <1>t DEF RequestFails, PoolInv, PoolTypeOK
  <2> QED
    BY <1>11, <1>t, <2>1, <2>2 DEF RequestFails, PoolInv
<1>12. CASE UNCHANGED poolVars
  BY <1>12, <1>t DEF poolVars, worker, PoolInv
<1> QED
  BY <1>1, <1>2, <1>3, <1>4, <1>5, <1>6, <1>7, <1>8, <1>9, <1>10, <1>11, <1>12
     DEF PoolNext

-----------------------------------------------------------------------------
(* The theorems *)

\* Every reachable state of the pool is well typed.
THEOREM PoolTypeCorrect == PoolSpec => []PoolTypeOK
<1>1. PoolInv => PoolTypeOK
  BY DEF PoolInv
<1> QED
  BY <1>1, PoolInvInit, PoolInvStep, PTL DEF PoolSpec

\* The error a transfer returns is never the cancellation that another error
\* caused, for any number of workers and items.
THEOREM PoolReportsTheCause == PoolSpec => []FirstErrorIsTheCause
<1>1. PoolInv => FirstErrorIsTheCause
  BY DEF PoolInv
<1> QED
  BY <1>1, PoolInvInit, PoolInvStep, PTL DEF PoolSpec

\* A transfer that returns no error has moved every item, for any number of
\* workers, items and retries.
THEOREM PoolIsComplete == PoolSpec => []OkMeansAll
<1>1. PoolInv => OkMeansAll
  BY DEF PoolInv
<1> QED
  BY <1>1, PoolInvInit, PoolInvStep, PTL DEF PoolSpec

-----------------------------------------------------------------------------
(*                               backup push                               *)

-----------------------------------------------------------------------------
(* The inductive invariant *)

RowsOK == rows \in Seq(Row) /\ content \in Contents

\* While the pool runs, each item it counts as transferred is stored under the
\* version being written.
DoneIsStored ==
  running => /\ phase = "upload" /\ cur \in 1..Len(rows)
             /\ rows[cur].content = content /\ done \subseteq rows[cur].stored

\* A push that answered is over.
AnsweredIsIdle == answer = "pushed" => phase = "idle" /\ cur \in 1..Len(rows)

UploadIsRunning == phase = "upload" => running

PushInv ==
  PoolInv /\ RowsOK /\ DoneIsStored /\ AnsweredIsIdle /\ UploadIsRunning /\ PushedIsWhole

-----------------------------------------------------------------------------
\* Every step of a push is a step of the pool or leaves the pool alone.
LEMMA PushStepIsPoolStep == [PushNext]_pushSystem => [PoolNext]_poolVars
<1> SUFFICES ASSUME [PushNext]_pushSystem PROVE [PoolNext]_poolVars
  OBVIOUS
<1>1. ASSUME NEW c \in Contents, NEW i \in BOOLEAN, PushStarts(c, i) PROVE UNCHANGED poolVars
  BY <1>1 DEF PushStarts
<1>2. CASE Peek
  BY <1>2 DEF Peek
<1>3. CASE CreateVersion
  BY <1>3 DEF CreateVersion, PostAgain, PoolNext
<1>4. CASE PoolStep
  BY <1>4 DEF PoolStep, PoolNext
<1>5. CASE PushReturns
  BY <1>5 DEF PushReturns, PoolNext
<1>6. CASE Die
  BY <1>6 DEF Die, PoolNext
<1>7. ASSUME NEW w \in Workers, PutSucceeds(w) PROVE PoolNext
  BY <1>7 DEF PutSucceeds, PoolNext
<1>8. ASSUME NEW w \in Workers, PutFails(w) PROVE PoolNext
  BY <1>8 DEF PutFails, PoolNext
<1>9. ASSUME NEW v \in Versions, DeleteVersion(v) PROVE UNCHANGED poolVars
  BY <1>9 DEF DeleteVersion
<1>10. CASE UNCHANGED pushSystem
  BY <1>10 DEF pushSystem
<1> QED
  BY <1>1, <1>2, <1>3, <1>4, <1>5, <1>6, <1>7, <1>8, <1>9, <1>10 DEF PushNext

\* backup push implements the transfer pool: the pool's theorems hold of it.
THEOREM PushImplementsPool == PushSpec => PoolSpec
<1>1. PushInit => PoolInit
  BY DEF PushInit
<1> QED
  BY <1>1, PushStepIsPoolStep, PTL DEF PushSpec, PoolSpec

-----------------------------------------------------------------------------
\* The initial states satisfy the inductive invariant.
LEMMA PushInvInit == PushInit => PushInv
<1> SUFFICES ASSUME PushInit PROVE PushInv
  OBVIOUS
<1>1. PoolInv
  BY PoolInvInit DEF PushInit
<1>2. RowsOK
  BY DEF PushInit, RowsOK
<1>3. running = FALSE /\ phase = "idle" /\ answer = "none"
  BY DEF PushInit, PoolInit
<1> QED
  BY <1>1, <1>2, <1>3 DEF PushInv, DoneIsStored, AnsweredIsIdle, UploadIsRunning,
     PushedIsWhole

\* An element of a sequence.
LEMMA SeqElement ==
  ASSUME NEW T, NEW s \in Seq(T), NEW v \in 1..Len(s)
  PROVE  s[v] \in T
  OBVIOUS

\* Replacing one element of a sequence.
LEMMA SeqReplace ==
  ASSUME NEW T, NEW s \in Seq(T), NEW v \in 1..Len(s), NEW x \in T
  PROVE  /\ [s EXCEPT ![v] = x] \in Seq(T)
         /\ Len([s EXCEPT ![v] = x]) = Len(s)
         /\ [s EXCEPT ![v] = x][v] = x
         /\ \A u \in 1..Len(s) : u # v => [s EXCEPT ![v] = x][u] = s[u]
  OBVIOUS

\* Appending an element to a sequence.
LEMMA SeqAppend ==
  ASSUME NEW T, NEW s \in Seq(T), NEW x \in T
  PROVE  Append(s, x) \in Seq(T)
  OBVIOUS

\* Adding objects to one version keeps the rows, their number, every version's
\* content and what was stored.
LEMMA StoredGrows ==
  ASSUME RowsOK, NEW v \in 1..Len(rows), NEW S \in SUBSET Items, UNCHANGED content,
         rows' = [rows EXCEPT ![v].stored = @ \cup S]
  PROVE  /\ RowsOK' /\ Len(rows') = Len(rows)
         /\ rows'[v].content = rows[v].content
         /\ rows'[v].stored = rows[v].stored \cup S
<1>1. rows[v] \in Row
  BY SeqElement DEF RowsOK
<1>2. PICK x : x = [rows[v] EXCEPT !.stored = @ \cup S]
  OBVIOUS
<1>3. x \in Row
  BY <1>1, <1>2 DEF Row
<1>a. rows' = [rows EXCEPT ![v] = x]
  BY <1>2
<1>b. /\ [rows EXCEPT ![v] = x] \in Seq(Row)
      /\ Len([rows EXCEPT ![v] = x]) = Len(rows) /\ [rows EXCEPT ![v] = x][v] = x
  BY <1>3, SeqReplace DEF RowsOK
<1>4. rows' \in Seq(Row) /\ Len(rows') = Len(rows) /\ rows'[v] = x
  BY <1>a, <1>b, Zenon
<1>5. rows'[v] = [rows[v] EXCEPT !.stored = @ \cup S]
  BY <1>2, <1>4
<1>6. rows'[v].content = rows[v].content /\ rows'[v].stored = rows[v].stored \cup S
  BY <1>1, <1>5 DEF Row
<1> QED
  BY <1>4, <1>6 DEF RowsOK

\* Every step of a push keeps the inductive invariant.
LEMMA PushInvStep == PushInv /\ [PushNext]_pushSystem => PushInv'
<1> SUFFICES ASSUME PushInv, [PushNext]_pushSystem PROVE PushInv'
  OBVIOUS
<1>p. PoolInv /\ PoolInv'
  BY PushStepIsPoolStep, PoolInvStep DEF PushInv
<1>r. RowsOK /\ DoneIsStored /\ AnsweredIsIdle /\ UploadIsRunning /\ PushedIsWhole
  BY DEF PushInv
<1>t. PoolTypeOK
  BY <1>p DEF PoolInv
<1>1. ASSUME NEW c \in Contents, NEW i \in BOOLEAN, PushStarts(c, i) PROVE PushInv'
  <2>1. running' = running /\ rows' = rows /\ content' \in Contents /\ answer' = "none"
        /\ phase' # "upload" /\ phase = "idle"
    BY <1>1 DEF PushStarts, poolVars
  <2> QED
    BY <2>1, <1>p, <1>r DEF PushInv, RowsOK, DoneIsStored, AnsweredIsIdle, UploadIsRunning,
       PushedIsWhole
<1>2. CASE Peek
  <2>1. running' = running /\ rows' = rows /\ content' = content /\ answer' # "pushed"
        /\ phase' # "upload" /\ phase = "peek"
    BY <1>2, <1>r DEF Peek, PushEnds, poolVars, AnsweredIsIdle
  <2> QED
    BY <2>1, <1>p, <1>r DEF PushInv, RowsOK, DoneIsStored, AnsweredIsIdle, UploadIsRunning,
       PushedIsWhole
<1>3. CASE CreateVersion
  <2>1. phase = "create" /\ content' = content /\ running = FALSE /\ answer # "pushed"
    BY <1>3, <1>r, <1>t DEF CreateVersion, DoneIsStored, AnsweredIsIdle, PoolTypeOK
  <2>2. RowsOK'
    <3>1. CASE NewRow
      <4>1. [content |-> content, stored |-> {}, listed |-> TRUE] \in Row
        BY <1>r DEF RowsOK, Row
      <4> QED
        BY <3>1, <4>1, <2>1, <1>r, SeqAppend DEF NewRow, RowsOK
    <3>2. CASE UNCHANGED rows
      BY <3>2, <2>1, <1>r DEF RowsOK
    <3> QED
      BY <1>3, <3>1, <3>2 DEF CreateVersion
  <2>3. CASE NewRow /\ cur' = Len(rows) + 1 /\ PoolStart /\ phase' = "upload" /\ UNCHANGED answer
    <3>1. Len(rows') = Len(rows) + 1 /\ rows'[cur'].content = content
      BY <2>3, <2>1, <1>r DEF NewRow, RowsOK
    <3>2. cur' \in 1..Len(rows')
      BY <2>3, <3>1, <1>r DEF RowsOK
    <3>3. running' = TRUE /\ done' = {}
      BY <2>3 DEF PoolStart
    <3>4. DoneIsStored'
      BY <2>3, <2>1, <3>1, <3>2, <3>3 DEF DoneIsStored
    <3> QED
      BY <2>1, <2>2, <2>3, <3>3, <3>4, <1>p DEF PushInv, AnsweredIsIdle, UploadIsRunning,
         PushedIsWhole
  <2>4. CASE running' = running /\ phase' # "upload" /\ answer' # "pushed"
    BY <2>1, <2>2, <2>4, <1>p DEF PushInv, DoneIsStored, AnsweredIsIdle, UploadIsRunning,
       PushedIsWhole
  <2> QED
    BY <1>3, <2>1, <2>3, <2>4 DEF CreateVersion, PostAgain, PushEnds, poolVars
<1>4. CASE PoolStep
  <2>1. UNCHANGED <<running, done, pushVars>>
    BY <1>4 DEF PoolStep, ProducerStop, Take, RangeEnds, BackoffEnds, ReportError, CancelAndExit
  <2> QED
    BY <2>1, <1>p, <1>r DEF pushVars, PushInv, RowsOK, DoneIsStored, AnsweredIsIdle,
       UploadIsRunning, PushedIsWhole
<1>5. CASE PushReturns
  <2>1. running /\ phase' = "idle" /\ UNCHANGED <<rows, content, cur, done>> /\ running' = FALSE
    BY <1>5 DEF PushReturns, PoolReturn, PushEnds
  <2>2. cur \in 1..Len(rows) /\ rows[cur].content = content /\ done \subseteq rows[cur].stored
    BY <2>1, <1>r DEF DoneIsStored
  <2>a. rows[cur] \in Row
    BY <2>2, <1>r, SeqElement DEF RowsOK
  <2>3. rows[cur].stored \subseteq Items
    BY <2>a DEF Row
  <2>4. answer' = "pushed" => done = Items
    <3>1. answer' = "pushed" => outcome' = "ok"
      BY <1>5 DEF PushReturns, PushEnds
    <3> QED
      BY <3>1, <2>1, <1>p DEF PoolInv, OkMeansAll
  <2>5. RowsOK'
    BY <2>1, <1>r DEF RowsOK
  <2> QED
    BY <2>1, <2>2, <2>3, <2>4, <2>5, <1>p DEF PushInv, DoneIsStored, AnsweredIsIdle,
       UploadIsRunning, PushedIsWhole
<1>6. CASE Die
  <2>1. phase' = "idle" /\ answer' = "none" /\ running' = FALSE
    BY <1>6, <1>r, <1>t DEF Die, PushEnds, PoolKilled, DoneIsStored, PoolTypeOK, poolVars
  <2>2. RowsOK'
    <3>1. CASE phase = "upload"
      <4>1. PICK held \in SUBSET {item[w] : w \in {x \in Workers : st[x] = "transfer"}} :
                rows' = [rows EXCEPT ![cur].stored = @ \cup held]
        BY <1>6, <3>1 DEF Die
      <4>2. held \in SUBSET Items
        BY <4>1, <1>t, SizesAssumption DEF PoolTypeOK, Holding, Items
      <4>3. cur \in 1..Len(rows) /\ UNCHANGED content
        BY <1>6, <3>1, <1>r DEF Die, DoneIsStored, UploadIsRunning
      <4> QED
        BY <4>1, <4>2, <4>3, <1>r, StoredGrows
    <3>2. CASE phase # "upload"
      BY <1>6, <3>2, <1>r DEF Die, RowsOK
    <3> QED
      BY <3>1, <3>2
  <2> QED
    BY <2>1, <2>2, <1>p DEF PushInv, DoneIsStored, AnsweredIsIdle, UploadIsRunning, PushedIsWhole
<1>7. ASSUME NEW w \in Workers, phase = "upload", running' = running,
             UNCHANGED <<phase, content, cur, answer>>, done' \subseteq done \cup {item[w]},
             Store(w), st[w] = "transfer"
      PROVE  PushInv'
  <2>1. {item[w]} \in SUBSET Items
    BY <1>7, <1>t, SizesAssumption DEF PoolTypeOK, Holding, Items
  <2>2. running /\ cur \in 1..Len(rows) /\ rows[cur].content = content
        /\ done \subseteq rows[cur].stored /\ answer # "pushed"
    BY <1>7, <1>r DEF DoneIsStored, UploadIsRunning, AnsweredIsIdle
  <2>3. /\ RowsOK' /\ Len(rows') = Len(rows)
        /\ rows'[cur].content = rows[cur].content
        /\ rows'[cur].stored = rows[cur].stored \cup {item[w]}
    BY <1>7, <2>1, <2>2, <1>r, StoredGrows DEF Store
  <2>4. DoneIsStored'
    BY <1>7, <2>2, <2>3 DEF DoneIsStored
  <2> QED
    BY <1>7, <2>2, <2>3, <2>4, <1>p DEF PushInv, AnsweredIsIdle, UploadIsRunning, PushedIsWhole
<1>8. ASSUME NEW w \in Workers, PutSucceeds(w) PROVE PushInv'
  BY <1>8, <1>7 DEF PutSucceeds, Succeed
<1>9. ASSUME NEW w \in Workers, PutFails(w) PROVE PushInv'
  <2>1. UNCHANGED <<phase, content, cur, answer, running, done>> /\ phase = "upload"
        /\ st[w] = "transfer"
    BY <1>9 DEF PutFails, RequestFails
  <2>2. CASE Store(w)
    BY <2>1, <2>2, <1>7
  <2>3. CASE UNCHANGED rows
    BY <2>1, <2>3, <1>p, <1>r DEF PushInv, RowsOK, DoneIsStored, AnsweredIsIdle,
       UploadIsRunning, PushedIsWhole
  <2> QED
    BY <1>9, <2>2, <2>3 DEF PutFails
<1>10. ASSUME NEW v \in Versions, DeleteVersion(v) PROVE PushInv'
  <2>1. UNCHANGED <<running, done, phase, content, cur, answer>>
    BY <1>10 DEF DeleteVersion, poolVars
  <2>a. v \in 1..Len(rows)
    BY <1>r DEF RowsOK, Versions
  <2>2. rows[v] \in Row
    BY <2>a, <1>r, SeqElement DEF RowsOK
  <2>3. PICK x : x = [rows[v] EXCEPT !.listed = FALSE]
    OBVIOUS
  <2>4. x \in Row /\ rows' = [rows EXCEPT ![v] = x]
    BY <1>10, <2>2, <2>3 DEF Row, DeleteVersion
  <2>5. rows' \in Seq(Row) /\ Len(rows') = Len(rows)
    BY <2>a, <2>4, <1>r, SeqReplace DEF RowsOK
  <2>6. \A u \in 1..Len(rows) :
           rows'[u].content = rows[u].content /\ rows'[u].stored = rows[u].stored
    <3>1. rows'[v] = x
      BY <2>a, <2>4, <1>r, SeqReplace DEF RowsOK
    <3>2. \A u \in 1..Len(rows) : u # v => rows'[u] = rows[u]
      BY <2>a, <2>4, <1>r, SeqReplace DEF RowsOK
    <3>3. rows'[v].content = rows[v].content /\ rows'[v].stored = rows[v].stored
      BY <3>1, <2>2, <2>3 DEF Row
    <3> QED
      BY <3>2, <3>3
  <2>7. RowsOK'
    BY <2>1, <2>5, <1>r DEF RowsOK
  <2> QED
    BY <2>1, <2>5, <2>6, <2>7, <1>p, <1>r DEF PushInv, DoneIsStored, AnsweredIsIdle,
       UploadIsRunning, PushedIsWhole
<1>11. CASE UNCHANGED pushSystem
  BY <1>11, <1>p, <1>r DEF pushSystem, poolVars, pushVars, PushInv, RowsOK, DoneIsStored,
     AnsweredIsIdle, UploadIsRunning, PushedIsWhole
<1> QED
  BY <1>1, <1>2, <1>3, <1>4, <1>5, <1>6, <1>8, <1>9, <1>10, <1>11 DEF PushNext

\* A push that reports success has stored its manifest and every chunk, for any
\* number of chunks, workers, retries and versions.
THEOREM PushIsWhole == PushSpec => []PushedIsWhole
<1>1. PushInv => PushedIsWhole
  BY DEF PushInv
<1> QED
  BY <1>1, PushInvInit, PushInvStep, PTL DEF PushSpec

-----------------------------------------------------------------------------
(* A push that is skipped *)

\* A skipped push is over, and the version it named is one of the rows.
SkippedIsIdle == answer = "skipped" => phase = "idle" /\ cur \in 1..Len(rows)

SkipInv == SkippedIsIdle /\ SkippedHasManifest

\* No row loses what is stored in it or changes its content: deleting a version
\* only unlists it, and a PUT that arrives late only adds.
LEMMA RowsGrow ==
  ASSUME PushInv, PushNext
  PROVE  /\ Len(rows) \in Nat /\ Len(rows') \in Nat /\ Len(rows) <= Len(rows')
         /\ \A u \in 1..Len(rows) : /\ rows'[u].content = rows[u].content
                                   /\ rows[u].stored \subseteq rows'[u].stored
<1>r. RowsOK /\ DoneIsStored /\ UploadIsRunning /\ PoolTypeOK
  BY DEF PushInv, PoolInv
<1>0. Len(rows) \in Nat
  BY <1>r DEF RowsOK
<1>1. ASSUME UNCHANGED rows PROVE Len(rows') = Len(rows)
  BY <1>1
<1>2. ASSUME NEW v \in 1..Len(rows), NEW x \in Row, rows' = [rows EXCEPT ![v] = x],
             x.content = rows[v].content, rows[v].stored \subseteq x.stored
      PROVE  /\ Len(rows') = Len(rows)
             /\ \A u \in 1..Len(rows) : /\ rows'[u].content = rows[u].content
                                       /\ rows[u].stored \subseteq rows'[u].stored
  <2>1. /\ Len([rows EXCEPT ![v] = x]) = Len(rows) /\ [rows EXCEPT ![v] = x][v] = x
        /\ \A u \in 1..Len(rows) : u # v => [rows EXCEPT ![v] = x][u] = rows[u]
    BY <1>r, SeqReplace DEF RowsOK
  <2>2. Len(rows') = Len(rows) /\ rows'[v] = x
        /\ \A u \in 1..Len(rows) : u # v => rows'[u] = rows[u]
    BY <1>2, <2>1, Zenon
  <2> QED
    BY <1>2, <2>2
<1>3. ASSUME NEW S, phase = "upload", rows' = [rows EXCEPT ![cur].stored = @ \cup S],
             S \in SUBSET Items
      PROVE  /\ Len(rows') = Len(rows)
             /\ \A u \in 1..Len(rows) : /\ rows'[u].content = rows[u].content
                                       /\ rows[u].stored \subseteq rows'[u].stored
  <2>1. cur \in 1..Len(rows)
    BY <1>3, <1>r DEF DoneIsStored, UploadIsRunning
  <2>2. rows[cur] \in Row
    BY <2>1, <1>r, SeqElement DEF RowsOK
  <2>3. PICK x : x = [rows[cur] EXCEPT !.stored = @ \cup S]
    OBVIOUS
  <2>4. x \in Row /\ x.content = rows[cur].content /\ rows[cur].stored \subseteq x.stored
    BY <1>3, <2>2, <2>3 DEF Row
  <2>5. rows' = [rows EXCEPT ![cur] = x]
    BY <1>3, <2>3
  <2> QED
    BY <2>1, <2>4, <2>5, <1>2
<1>4. CASE NewRow
  BY <1>4, <1>r DEF NewRow, RowsOK
<1>5. ASSUME NEW v \in Versions, DeleteVersion(v)
      PROVE  /\ Len(rows') = Len(rows)
             /\ \A u \in 1..Len(rows) : /\ rows'[u].content = rows[u].content
                                       /\ rows[u].stored \subseteq rows'[u].stored
  <2>1. v \in 1..Len(rows)
    BY <1>r DEF RowsOK, Versions
  <2>2. rows[v] \in Row
    BY <2>1, <1>r, SeqElement DEF RowsOK
  <2>3. PICK x : x = [rows[v] EXCEPT !.listed = FALSE]
    OBVIOUS
  <2>4. x \in Row /\ x.content = rows[v].content /\ rows[v].stored \subseteq x.stored
    BY <2>2, <2>3 DEF Row
  <2>5. rows' = [rows EXCEPT ![v] = x]
    BY <1>5, <2>3 DEF DeleteVersion
  <2> QED
    BY <2>1, <2>4, <2>5, <1>2
<1>6. \A w \in Workers : st[w] = "transfer" => {item[w]} \in SUBSET Items
  BY <1>r, SizesAssumption DEF PoolTypeOK, Holding, Items
<1>7. CASE Die /\ phase = "upload"
  <2>1. PICK held \in SUBSET {item[w] : w \in {x \in Workers : st[x] = "transfer"}} :
            rows' = [rows EXCEPT ![cur].stored = @ \cup held]
    BY <1>7 DEF Die
  <2>2. held \in SUBSET Items
    BY <2>1, <1>6
  <2> QED
    BY <1>0, <1>3, <1>7, <2>1, <2>2
<1>8. ASSUME NEW w \in Workers, PutSucceeds(w) \/ PutFails(w), Store(w)
      PROVE  /\ Len(rows') = Len(rows)
             /\ \A u \in 1..Len(rows) : /\ rows'[u].content = rows[u].content
                                       /\ rows[u].stored \subseteq rows'[u].stored
  <2>1. phase = "upload" /\ st[w] = "transfer"
    BY <1>8 DEF PutSucceeds, PutFails, Succeed, RequestFails
  <2> QED
    BY <1>3, <1>6, <1>8, <2>1 DEF Store
<1>9. NewRow \/ UNCHANGED rows \/ (Die /\ phase = "upload")
      \/ (\E w \in Workers : (PutSucceeds(w) \/ PutFails(w)) /\ Store(w))
      \/ (\E v \in Versions : DeleteVersion(v))
  BY DEF PushNext, PushStarts, Peek, CreateVersion, PoolStep, PushReturns, Die, PutSucceeds,
     PutFails, pushVars
<1> QED
  BY <1>0, <1>1, <1>4, <1>5, <1>7, <1>8, <1>9

\* Every step keeps what is known of a skipped push.
LEMMA SkipInvStep == PushInv /\ SkipInv /\ [PushNext]_pushSystem => SkipInv'
<1> SUFFICES ASSUME PushInv, SkipInv, [PushNext]_pushSystem PROVE SkipInv'
  OBVIOUS
<1>1. CASE UNCHANGED pushSystem
  BY <1>1 DEF pushSystem, pushVars, SkipInv, SkippedIsIdle, SkippedHasManifest
<1>2. CASE PushNext
  <2>1. /\ Len(rows) \in Nat /\ Len(rows') \in Nat /\ Len(rows) <= Len(rows')
        /\ \A u \in 1..Len(rows) : /\ rows'[u].content = rows[u].content
                                  /\ rows[u].stored \subseteq rows'[u].stored
    BY <1>2, RowsGrow
  <2>2. CASE Peek /\ answer' = "skipped"
    <3>0. phase = "peek" /\ UNCHANGED <<rows, content>>
      BY <2>2 DEF Peek
    <3>1. answer # "skipped"
      BY <3>0 DEF SkipInv, SkippedIsIdle
    <3>2. PICK v \in Versions : ManifestMatches(v) /\ cur' = v /\ PushEnds("skipped")
      BY <2>2, <3>1 DEF Peek
    <3>3. v \in 1..Len(rows)
      BY DEF PushInv, RowsOK, Versions
    <3> QED
      BY <3>0, <3>2, <3>3 DEF SkipInv, SkippedIsIdle, SkippedHasManifest, ManifestMatches, PushEnds
  <2>3. CASE answer = "skipped" /\ UNCHANGED <<phase, content, cur, answer>>
    BY <2>1, <2>3 DEF SkipInv, SkippedIsIdle, SkippedHasManifest
  <2>4. CASE answer' # "skipped"
    BY <2>4 DEF SkipInv, SkippedIsIdle, SkippedHasManifest
  <2>5. answer = "skipped" => phase = "idle"
    BY DEF SkipInv, SkippedIsIdle
  <2> QED
    BY <1>2, <2>2, <2>3, <2>4, <2>5 DEF PushNext, PushStarts, Peek, CreateVersion, PostAgain,
       PoolStep, PushReturns, Die, PutSucceeds, PutFails, DeleteVersion, PushEnds, pushVars
<1> QED
  BY <1>1, <1>2

\* A skipped push names a version with a stored manifest and the profile's content,
\* for any number of rows that failed, repeated or killed pushes left behind.
THEOREM SkippedHasManifestCorrect == PushSpec => []SkippedHasManifest
<1>1. PushInit => SkipInv
  BY DEF PushInit, SkipInv, SkippedIsIdle, SkippedHasManifest
<1>2. SkipInv => SkippedHasManifest
  BY DEF SkipInv
<1> QED
  BY <1>1, <1>2, PushInvInit, PushInvStep, SkipInvStep, PTL DEF PushSpec

-----------------------------------------------------------------------------
(*                               backup pull                               *)

-----------------------------------------------------------------------------
(* The inductive invariant *)

Unpacking == {"remove", "mkdir", "untar"}

\* The pool runs exactly while the chunks are fetched.
FetchIsRunning == running <=> pullPhase = "fetch"

\* A chunk counts as fetched only when it was verified.
DoneIsVerified == pullPhase \in Unpacking \cup {"fetch"} => \A i \in done : blob[i] = "good"

\* The archive is unpacked from a complete set of chunks.
UnpackedIsFetched == pullPhase \in Unpacking => done = Items

PullInv == PoolInv /\ FetchIsRunning /\ DoneIsVerified /\ UnpackedIsFetched

-----------------------------------------------------------------------------
\* Every step of a pull is a step of the pool or leaves the pool alone.
LEMMA PullStepIsPoolStep == [PullNext]_pullSystem => [PoolNext]_poolVars
<1> SUFFICES ASSUME [PullNext]_pullSystem PROVE [PoolNext]_poolVars
  OBVIOUS
<1>1. ASSUME NEW over \in BOOLEAN, NEW b, BeginPull(over, b) PROVE UNCHANGED poolVars
  BY <1>1 DEF BeginPull
<1>2. CASE FetchManifest
  BY <1>2 DEF FetchManifest, PoolNext
<1>3. CASE FetchStep
  BY <1>3 DEF FetchStep, PoolNext
<1>4. CASE FetchReturns
  BY <1>4 DEF FetchReturns, PoolNext
<1>5. CASE RemoveTarget \/ MakeTarget \/ Untar
  BY <1>5 DEF RemoveTarget, MakeTarget, Untar
<1>6. CASE PullDies
  BY <1>6 DEF PullDies, PoolNext
<1>7. ASSUME NEW w \in Workers, GetChunk(w) PROVE PoolNext
  <2>1. "fatal" \in Errors /\ "canceled" \in Errors
    BY DEF Errors
  <2> QED
    BY <1>7, <2>1 DEF GetChunk, PoolNext
<1>8. ASSUME NEW f \in Files, OtherWrites(f) PROVE UNCHANGED poolVars
  BY <1>8 DEF OtherWrites
<1>9. CASE UNCHANGED pullSystem
  BY <1>9 DEF pullSystem
<1> QED
  BY <1>1, <1>2, <1>3, <1>4, <1>5, <1>6, <1>7, <1>8, <1>9 DEF PullNext

\* backup pull implements the transfer pool: the pool's theorems hold of it.
THEOREM PullImplementsPool == PullSpec => PoolSpec
<1>1. PullInit => PoolInit
  BY DEF PullInit
<1> QED
  BY <1>1, PullStepIsPoolStep, PTL DEF PullSpec, PoolSpec

-----------------------------------------------------------------------------
\* The initial states satisfy the inductive invariant.
LEMMA PullInvInit == PullInit => PullInv
<1> SUFFICES ASSUME PullInit PROVE PullInv
  OBVIOUS
<1>1. PoolInv
  BY PoolInvInit DEF PullInit
<1>2. running = FALSE /\ pullPhase = "idle"
  BY DEF PullInit, PoolInit
<1> QED
  BY <1>1, <1>2 DEF PullInv, FetchIsRunning, DoneIsVerified, UnpackedIsFetched, Unpacking

\* Every step of a pull keeps the inductive invariant.
LEMMA PullInvStep == PullInv /\ [PullNext]_pullSystem => PullInv'
<1> SUFFICES ASSUME PullInv, [PullNext]_pullSystem PROVE PullInv'
  OBVIOUS
<1>p. PoolInv /\ PoolInv'
  BY PullStepIsPoolStep, PoolInvStep DEF PullInv
<1>r. FetchIsRunning /\ DoneIsVerified /\ UnpackedIsFetched
  BY DEF PullInv
<1>t. running \in BOOLEAN
  BY <1>p DEF PoolInv, PoolTypeOK
<1> USE DEF Unpacking, FetchIsRunning, DoneIsVerified, UnpackedIsFetched
<1>1. ASSUME NEW over \in BOOLEAN, NEW b, BeginPull(over, b) PROVE PullInv'
  <2>1. running' = running /\ pullPhase = "idle" /\ pullPhase' \in {"idle", "manifest"}
    BY <1>1 DEF BeginPull, PullEnds, poolVars
  <2> QED
    BY <2>1, <1>p, <1>r DEF PullInv
<1>2. CASE FetchManifest
  <2>1. pullPhase = "manifest" /\ UNCHANGED blob
    BY <1>2 DEF FetchManifest
  <2>2. CASE PoolStart /\ pullPhase' = "fetch"
    <3>1. running' = TRUE /\ done' = {}
      BY <2>2 DEF PoolStart
    <3> QED
      BY <2>2, <3>1, <1>p DEF PullInv
  <2>3. CASE UNCHANGED poolVars /\ pullPhase' = "idle"
    <3>1. running' = running
      BY <2>3 DEF poolVars
    <3> QED
      BY <2>1, <2>3, <3>1, <1>p, <1>r DEF PullInv
  <2> QED
    BY <1>2, <2>2, <2>3 DEF FetchManifest, PullEnds
<1>3. CASE FetchStep
  <2>1. UNCHANGED <<running, done, pullPhase, blob>>
    BY <1>3 DEF FetchStep, pullVars, ProducerStop, Take, RangeEnds, ReportError, CancelAndExit
  <2> QED
    BY <2>1, <1>p, <1>r DEF PullInv
<1>4. CASE FetchReturns
  <2>1. /\ running' = FALSE /\ pullPhase = "fetch" /\ UNCHANGED <<done, blob>>
        /\ pullPhase' \in Unpacking \cup {"idle"}
        /\ pullPhase' \in Unpacking => outcome' = "ok"
    BY <1>4 DEF FetchReturns, PoolReturn, PullEnds
  <2>2. pullPhase' \in Unpacking => done' = Items
    BY <2>1, <1>p DEF PoolInv, OkMeansAll
  <2> QED
    BY <2>1, <2>2, <1>p, <1>r DEF PullInv
<1>5. CASE RemoveTarget \/ MakeTarget \/ Untar
  <2>1. UNCHANGED <<running, done, blob>> /\ pullPhase \in Unpacking /\ pullPhase' \in Unpacking \cup {"idle"}
    BY <1>5 DEF RemoveTarget, MakeTarget, Untar, WriteFile, PullEnds, poolVars
  <2> QED
    BY <2>1, <1>p, <1>r DEF PullInv
<1>6. CASE PullDies
  <2>1. pullPhase' = "idle" /\ running' = FALSE
    BY <1>6, <1>r, <1>t DEF PullDies, PullEnds, PoolKilled, poolVars
  <2> QED
    BY <2>1, <1>p DEF PullInv
<1>7. ASSUME NEW w \in Workers, GetChunk(w) PROVE PullInv'
  <2>1. UNCHANGED <<running, pullPhase, blob>> /\ pullPhase = "fetch"
    BY <1>7 DEF GetChunk, pullVars, Succeed, RequestFails
  <2>2. done' = done \/ (done' = done \cup {item[w]} /\ blob[item[w]] = "good")
    BY <1>7 DEF GetChunk, ChunkVerified, Succeed, RequestFails
  <2> QED
    BY <2>1, <2>2, <1>p, <1>r DEF PullInv
<1>8. ASSUME NEW f \in Files, OtherWrites(f) PROVE PullInv'
  <2>1. UNCHANGED <<running, done, pullPhase, blob>>
    BY <1>8 DEF OtherWrites, poolVars
  <2> QED
    BY <2>1, <1>p, <1>r DEF PullInv
<1>9. CASE UNCHANGED pullSystem
  BY <1>9, <1>p, <1>r DEF pullSystem, poolVars, pullVars, PullInv
<1> QED
  BY <1>1, <1>2, <1>3, <1>4, <1>5, <1>6, <1>7, <1>8, <1>9 DEF PullNext

\* Only the unpacking of verified chunks removes or replaces files.
LEMMA TouchStep ==
  PullInv /\ [PullNext]_pullSystem =>
    ((\E f \in Files : target'[f] # target[f] /\ target'[f] # "local")
       => done = Items /\ \A i \in Items : blob[i] = "good")
<1> SUFFICES ASSUME PullInv, [PullNext]_pullSystem,
                    NEW f \in Files, target'[f] # target[f], target'[f] # "local"
             PROVE  done = Items /\ \A i \in Items : blob[i] = "good"
  OBVIOUS
<1>1. CASE RemoveTarget \/ Untar
  <2>1. pullPhase \in Unpacking
    BY <1>1 DEF RemoveTarget, Untar, Unpacking
  <2> QED
    BY <2>1 DEF PullInv, DoneIsVerified, UnpackedIsFetched
<1>2. ASSUME NEW g \in Files, OtherWrites(g) PROVE FALSE
  BY <1>2 DEF OtherWrites
<1>3. ASSUME target' = target PROVE FALSE
  BY <1>3
<1> QED
  BY <1>1, <1>2, <1>3 DEF PullNext, BeginPull, FetchManifest, FetchStep, FetchReturns,
     MakeTarget, PullDies, GetChunk, pullVars, pullSystem

\* A pull removes or replaces no file before every chunk of the version has been
\* fetched and verified, for any number of chunks and workers.
THEOREM PullTouchesOnlyWhenVerified == PullSpec => TouchedOnlyWhenVerified
<1>1. PullInv /\ [PullNext]_pullSystem =>
        [(\E f \in Files : target'[f] # target[f] /\ target'[f] # "local")
           => done = Items /\ \A i \in Items : blob[i] = "good"]_pullSystem
  BY TouchStep
<1> QED
  BY <1>1, PullInvInit, PullInvStep, PTL DEF PullSpec, TouchedOnlyWhenVerified
=============================================================================
