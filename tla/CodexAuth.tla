------------------------------ MODULE CodexAuth ------------------------------
(***************************************************************************)
(* The ChatGPT account of the codex provider: login, refresh, recovery and *)
(* disconnect of providers/openai_codex/auth.py in processes that share    *)
(* one credential file under the file lock of core/interprocess_lock.py,   *)
(* and what the application tells the provider manager about the account   *)
(* (connected_account_status of runtime/application.py).                   *)
(*                                                                         *)
(* Credentials are tokens, numbered as the server issues them: one number  *)
(* is an access token and the refresh token that came with it, 0 is none.  *)
(* The server gives a new refresh token for the old one, once.             *)
(* Administered are the processes whose Admin page is in use.              *)
(***************************************************************************)
EXTENDS Naturals, Sequences, NoValue

CONSTANTS Processes, Administered, MaxTokens, MaxFaults, MaxCommands

ASSUME AccountAssumption == Administered \subseteq Processes /\ MaxTokens \in Nat

VARIABLES
    file,       \* the credential file
    flock,      \* the file lock: None, or the process and its task
    memory,     \* _credentials
    user,       \* what the holder of _state_lock does; "free"
    fetched,    \* the token a refresh has obtained
    login,      \* _login_task: "none" or its stage
    grant,      \* the token it has obtained
    removal,    \* disconnect: "none", or "detached" from the login
    strays,     \* writes that go on in a thread, their task cancelled
    strayed,    \* there has been one
    revision,   \* _revision
    recorded,   \* _connected_account_revisions of the application
    updates,    \* connected_provider_changed calls, in their order
    told,       \* the provider manager counts the account as connected
    adopted,    \* credentials were taken from the file after a 401
    issued, accepted, fresh,  \* tokens issued, renewable, not about to expire
    buried,     \* tokens a process had obtained before it disconnected
    faults, demands

accountVars ==
    <<file, flock, memory, user, fetched, login, grant, removal, strays, strayed,
      revision, recorded, updates, told, adopted, issued, accepted, fresh, buried,
      faults, demands>>
server == <<issued, accepted, fresh>>
telling == <<recorded, updates, told>>

Tokens == 1..MaxTokens
(* Only the Admin page reads the revision. *)
Bump(p) ==
    revision' = [revision EXCEPT ![p] = IF p \in Administered THEN @ + 1 ELSE @]

Free(p) == user' = [user EXCEPT ![p] = "free"]
Unlock(p, task) == flock' = IF flock = <<p, task>> THEN None ELSE flock

(* The token endpoint issues a token, for a code or for a refresh token. *)
Issue(spent) ==
    /\ issued < MaxTokens
    /\ issued' = issued + 1
    /\ accepted' = (accepted \ {spent}) \cup {issued + 1}
    /\ fresh' = fresh \cup {issued + 1}

Expires(t) ==
    /\ t \in fresh
    /\ fresh' = fresh \ {t}
    /\ UNCHANGED <<file, flock, memory, user, fetched, login, grant, removal, strays,
                   strayed, revision, telling, adopted, issued, accepted, buried,
                   faults, demands>>
-----------------------------------------------------------------------------
(* start_login, unless one is running; disconnect holds _operation_lock. *)
StartLogin(p) ==
    /\ login[p] = "none" /\ removal[p] = "none" /\ user[p] = "free"
    /\ demands < MaxCommands
    /\ demands' = demands + 1
    /\ login' = [login EXCEPT ![p] = "pending"]
    /\ grant' = [grant EXCEPT ![p] = 0]
    /\ UNCHANGED <<file, flock, memory, user, fetched, removal, strays,
                   strayed, revision, telling, adopted, server, buried, faults>>

(* The browser's callback or the device poll brings a code to exchange. *)
Exchange(p) ==
    /\ login[p] = "pending"
    /\ Issue(0)
    /\ grant' = [grant EXCEPT ![p] = issued + 1]
    /\ login' = [login EXCEPT ![p] = "locking"]
    /\ UNCHANGED <<file, flock, memory, user, fetched, removal, strays, strayed,
                   revision, telling, adopted, buried, faults, demands>>

(* Refused, expired, or the file lock not got in 30 seconds. *)
LoginFails(p) ==
    /\ login[p] \in {"pending", "locking"}
    /\ login' = [login EXCEPT ![p] = "none"]
    /\ UNCHANGED <<file, flock, memory, user, fetched, grant, removal, strays,
                   strayed, revision, telling, adopted, server, buried, faults,
                   demands>>

(* _write_credentials: in a thread, under the file lock alone. *)
LoginWrites(p) ==
    /\ login[p] = "locking" /\ flock = None
    /\ flock' = <<p, "login">>
    /\ login' = [login EXCEPT ![p] = "writing"]
    /\ UNCHANGED <<file, memory, user, fetched, grant, removal, strays, strayed,
                   revision, telling, adopted, server, buried, faults, demands>>

LoginWritten(p) ==
    /\ login[p] = "writing"
    /\ file' = grant[p]
    /\ Unlock(p, "login")
    /\ login' = [login EXCEPT ![p] = "installing"]
    /\ UNCHANGED <<memory, user, fetched, grant, removal, strays, strayed, revision,
                   telling, adopted, server, buried, faults, demands>>

(* The else branch of _complete_login, under _state_lock. *)
Install(p) ==
    /\ login[p] = "installing" /\ user[p] = "free"
    /\ memory' = [memory EXCEPT ![p] = grant[p]]
    /\ Bump(p)
    /\ login' = [login EXCEPT ![p] = "none"]
    /\ grant' = [grant EXCEPT ![p] = 0]
    /\ UNCHANGED <<file, flock, user, fetched, removal, strays, strayed,
                   telling, adopted, server, buried, faults, demands>>

\* Mutant of Detach: the task that was detached is not cancelled.
DetachAlone(p) == UNCHANGED <<login, flock, strays, strayed>>

(***************************************************************************)
(* _detach_login_locked and _close_detached_login: the task is cancelled   *)
(* and waited for. It gives up the file lock, but the thread that writes   *)
(* for it goes on.                                                         *)
(***************************************************************************)
Detach(p) ==
    /\ login' = [login EXCEPT ![p] = "none"]
    /\ Unlock(p, "login")
    /\ strays' = strays \cup (IF login[p] = "writing" THEN {<<p, grant[p]>>} ELSE {})
    /\ strayed' = (strayed \/ login[p] = "writing")

CancelLogin(p) ==
    /\ login[p] # "none" /\ removal[p] = "none" /\ user[p] = "free"
    /\ demands < MaxCommands
    /\ demands' = demands + 1
    /\ Detach(p)
    /\ UNCHANGED <<file, memory, user, fetched, grant, removal, revision, telling,
                   adopted, server, buried, faults>>

(* disconnect: first the login, then, under _state_lock, the rest. *)
Disconnect(p) ==
    /\ removal[p] = "none" /\ user[p] = "free"
    /\ demands < MaxCommands
    /\ demands' = demands + 1
    /\ removal' = [removal EXCEPT ![p] = "detached"]
    /\ Detach(p)
    /\ UNCHANGED <<file, memory, user, fetched, grant, revision, telling, adopted,
                   server, buried, faults>>

(* The revocation is asked for; its failure is ignored. *)
Revoke(p) ==
    /\ removal[p] = "detached" /\ user[p] = "free"
    /\ user' = [user EXCEPT ![p] = "unlinking"]
    /\ accepted' \in {accepted, accepted \ {memory[p]}}
    /\ UNCHANGED <<file, flock, memory, fetched, login, grant, removal, strays,
                   strayed, revision, telling, adopted, issued, fresh, buried,
                   faults, demands>>

(* _delete_credentials; the caller then tells the provider manager. *)
Unlink(p) ==
    /\ user[p] = "unlinking" /\ flock = None
    /\ file' = 0
    /\ memory' = [memory EXCEPT ![p] = 0]
    /\ Bump(p)
    /\ updates' = [updates EXCEPT ![p] = Append(@, <<FALSE, revision[p] + 1>>)]
    /\ adopted' = [adopted EXCEPT ![p] = FALSE]
    /\ buried' = [buried EXCEPT ![p] = @ \cup
                    ({memory[p], grant[p], fetched[p]} \cap Tokens)]
    /\ removal' = [removal EXCEPT ![p] = "none"]
    /\ Free(p)
    /\ UNCHANGED <<flock, fetched, login, grant, strays, strayed, recorded, told,
                   server, faults, demands>>

UnlinkTimesOut(p) ==
    /\ user[p] = "unlinking" /\ flock # None
    /\ removal' = [removal EXCEPT ![p] = "none"]
    /\ Free(p)
    /\ UNCHANGED <<file, flock, memory, fetched, login, grant, strays, strayed,
                   revision, telling, adopted, server, buried, faults, demands>>
-----------------------------------------------------------------------------
(* access: a token that is about to expire is renewed first. *)
Access(p) ==
    /\ user[p] = "free" /\ memory[p] # 0 /\ memory[p] \notin fresh
    /\ user' = [user EXCEPT ![p] = "relocking"]
    /\ UNCHANGED <<file, flock, memory, fetched, login, grant, removal, strays,
                   strayed, revision, telling, adopted, server, buried, faults,
                   demands>>

(***************************************************************************)
(* recover_unauthorized, for the token that a request in flight has seen   *)
(* refused: another one in the file is taken over, else it is renewed.     *)
(***************************************************************************)
Recover(p) ==
    /\ user[p] = "free"
    /\ \/ /\ file # 0 /\ file # memory[p]
          /\ memory' = [memory EXCEPT ![p] = file]
          /\ adopted' = [adopted EXCEPT ![p] = @ \/ memory[p] = 0]
          /\ UNCHANGED user
       \/ /\ file \in {0, memory[p]} /\ memory[p] # 0
          /\ user' = [user EXCEPT ![p] = "relocking"]
          /\ UNCHANGED <<memory, adopted>>
    /\ UNCHANGED <<file, flock, fetched, login, grant, removal, strays, strayed,
                   revision, telling, server, buried, faults, demands>>

(***************************************************************************)
(* _refresh_locked, with the file lock: what another process has renewed   *)
(* meanwhile is taken over unless it is about to expire as well.           *)
(***************************************************************************)
RefreshLocks(p) ==
    /\ user[p] = "relocking" /\ flock = None
    /\ \/ /\ file # 0 /\ file # memory[p] /\ file \in fresh
          /\ memory' = [memory EXCEPT ![p] = file]
          /\ Free(p)
          /\ UNCHANGED flock
       \/ /\ file \in {0, memory[p]} \/ file \notin fresh
          /\ flock' = <<p, "refresh">>
          /\ user' = [user EXCEPT ![p] = "posting"]
          /\ UNCHANGED memory
    /\ UNCHANGED <<file, fetched, login, grant, removal, strays, strayed, revision,
                   telling, adopted, server, buried, faults, demands>>

RefreshTimesOut(p) ==
    /\ user[p] = "relocking" /\ flock # None
    /\ Free(p)
    /\ UNCHANGED <<file, flock, memory, fetched, login, grant, removal, strays,
                   strayed, revision, telling, adopted, server, buried, faults,
                   demands>>

Renewed(p) ==
    /\ user[p] = "posting" /\ memory[p] \in accepted
    /\ Issue(memory[p])
    /\ fetched' = [fetched EXCEPT ![p] = issued + 1]
    /\ user' = [user EXCEPT ![p] = "saving"]
    /\ UNCHANGED <<file, flock, memory, login, grant, removal, strays, strayed,
                   revision, telling, adopted, buried, faults, demands>>

Saved(p) ==
    /\ user[p] = "saving"
    /\ file' = fetched[p]
    /\ memory' = [memory EXCEPT ![p] = fetched[p]]
    /\ Bump(p)
    /\ Unlock(p, "refresh")
    /\ Free(p)
    /\ UNCHANGED <<fetched, login, grant, removal, strays, strayed, telling, adopted,
                   server, buried, faults, demands>>

(* The account is no longer connected. *)
Lapses(p) == Bump(p)

(* 400, 401 or 403: the account has to be connected anew. *)
Refused(p) ==
    /\ user[p] = "posting" /\ memory[p] \notin accepted
    /\ file' = 0
    /\ memory' = [memory EXCEPT ![p] = 0]
    /\ Lapses(p)
    /\ adopted' = [adopted EXCEPT ![p] = FALSE]
    /\ Unlock(p, "refresh")
    /\ Free(p)
    /\ UNCHANGED <<fetched, login, grant, removal, strays, strayed, telling, server,
                   buried, faults, demands>>

GivesUp(p) == Free(p) /\ Unlock(p, "refresh")

(***************************************************************************)
(* The request fails or is cancelled: the server may have renewed the      *)
(* token all the same, and a write that has begun goes on.                 *)
(***************************************************************************)
RefreshFails(p) ==
    /\ user[p] \in {"relocking", "posting", "saving"} /\ faults < MaxFaults
    /\ faults' = faults + 1
    /\ GivesUp(p)
    /\ IF user[p] = "saving"
       THEN strays' = strays \cup {<<p, fetched[p]>>} /\ strayed' = TRUE
       ELSE UNCHANGED <<strays, strayed>>
    /\ \/ UNCHANGED server
       \/ user[p] = "posting" /\ memory[p] \in accepted /\ Issue(memory[p])
    /\ UNCHANGED <<file, memory, fetched, login, grant, removal, revision, telling,
                   adopted, buried, demands>>

StrayLands(p) ==
    \E s \in strays :
        /\ s[1] = p
        /\ file' = s[2]
        /\ strays' = strays \ {s}
        /\ UNCHANGED <<flock, memory, user, fetched, login, grant, removal, strayed,
                       revision, telling, adopted, server, buried, faults, demands>>
-----------------------------------------------------------------------------
(* connected_account_status: a revision not yet recorded is passed on. *)
Poll(p) ==
    /\ revision[p] # recorded[p] /\ Len(updates[p]) < 2
    /\ updates' = [updates EXCEPT ![p] = Append(@, <<memory[p] # 0, revision[p]>>)]
    /\ UNCHANGED <<file, flock, memory, user, fetched, login, grant, removal, strays,
                   strayed, revision, recorded, told, adopted, server, buried,
                   faults, demands>>

(* connected_provider_changed, one after another, and its record. *)
Tell(p) ==
    /\ updates[p] # <<>>
    /\ told' = [told EXCEPT ![p] = Head(updates[p])[1]]
    /\ recorded' = [recorded EXCEPT ![p] = Head(updates[p])[2]]
    /\ updates' = [updates EXCEPT ![p] = Tail(@)]
    /\ UNCHANGED <<file, flock, memory, user, fetched, login, grant, removal, strays,
                   strayed, revision, adopted, server, buried, faults, demands>>

(* The process ends, in order or not, and starts again with the file. *)
Restart(p) ==
    /\ faults < MaxFaults
    /\ faults' = faults + 1
    /\ flock' = IF flock # None /\ flock[1] = p THEN None ELSE flock
    /\ memory' = [memory EXCEPT ![p] = file]
    /\ revision' = [revision EXCEPT ![p] = IF file = 0 THEN 0 ELSE 1]
    /\ recorded' = [recorded EXCEPT ![p] = IF file = 0 THEN 0 ELSE 1]
    /\ told' = [told EXCEPT ![p] = file # 0]
    /\ adopted' = [adopted EXCEPT ![p] = FALSE]
    /\ updates' = [updates EXCEPT ![p] = <<>>]
    /\ Free(p)
    /\ login' = [login EXCEPT ![p] = "none"]
    /\ removal' = [removal EXCEPT ![p] = "none"]
    /\ strays' = {s \in strays : s[1] # p}
    /\ UNCHANGED <<file, fetched, grant, strayed, server, buried, demands>>
-----------------------------------------------------------------------------
AccountInit ==
    /\ file = 1
    /\ flock = None
    /\ memory = [p \in Processes |-> 1]
    /\ user = [p \in Processes |-> "free"]
    /\ fetched = [p \in Processes |-> 0]
    /\ login = [p \in Processes |-> "none"]
    /\ grant = [p \in Processes |-> 0]
    /\ removal = [p \in Processes |-> "none"]
    /\ strays = {} /\ strayed = FALSE
    /\ revision = [p \in Processes |-> 1]
    /\ recorded = [p \in Processes |-> 1]
    /\ updates = [p \in Processes |-> <<>>]
    /\ told = [p \in Processes |-> TRUE]
    /\ adopted = [p \in Processes |-> FALSE]
    /\ issued = 1 /\ accepted = {1} /\ fresh = {1}
    /\ buried = [p \in Processes |-> {}]
    /\ faults = 0
    /\ demands = 0

SignIn(p) ==
    StartLogin(p) \/ Exchange(p) \/ LoginFails(p) \/ LoginWrites(p)
    \/ LoginWritten(p) \/ Install(p) \/ CancelLogin(p)
SignOut(p) == Disconnect(p) \/ Revoke(p) \/ Unlink(p) \/ UnlinkTimesOut(p)
Refresh(p) ==
    Access(p) \/ Recover(p) \/ RefreshLocks(p) \/ RefreshTimesOut(p) \/ Renewed(p)
    \/ Saved(p) \/ Refused(p) \/ RefreshFails(p) \/ StrayLands(p)

AtRest == UNCHANGED accountVars

AccountNext ==
    \/ \E p \in Processes : Refresh(p) \/ Restart(p)
    \/ \E p \in Administered : SignIn(p) \/ SignOut(p) \/ Poll(p) \/ Tell(p)
    \/ \E t \in Tokens : Expires(t)
    \/ AtRest

AccountSpec == AccountInit /\ [][AccountNext]_accountVars
-----------------------------------------------------------------------------
(***************************************************************************)
(* A disconnect is final: what a process had obtained before it, by a      *)
(* login in any stage or by a refresh, is neither in its memory nor in the *)
(* file afterwards. The exception is a write whose task was cancelled: its *)
(* thread goes on, and may put the file back after it was removed, though  *)
(* auth.py:283 says "always remove FCC-owned credentials".                 *)
(***************************************************************************)
DisconnectFinal ==
    ~strayed => \A p \in Processes :
        /\ memory[p] \notin buried[p]
        /\ file \notin buried[p]
        /\ removal[p] = "none" /\ login[p] # "none" => grant[p] \notin buried[p]

(***************************************************************************)
(* Once the revision is recorded and nothing is under way, the provider    *)
(* manager counts the account as connected exactly when it is, in whatever *)
(* order logins, refusals, disconnects and polls came; but credentials     *)
(* taken from the file after a 401 are not announced by a revision.        *)
(***************************************************************************)
AvailabilityTold ==
    \A p \in Administered :
        recorded[p] = revision[p] /\ updates[p] = <<>> /\ ~adopted[p] =>
            told[p] = (memory[p] # 0)

(* Nothing from before a disconnect comes back, and the provider manager   *)
(* knows whether there is an account.                                      *)
AccountKept == DisconnectFinal /\ AvailabilityTold
=============================================================================
