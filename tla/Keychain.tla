------------------------------ MODULE Keychain ------------------------------
(***************************************************************************)
(* One small secret per (service, account) in the operating system's store *)
(* (keychain/src/keychain.cpp), with its three back ends: macOS Keychain   *)
(* Services, Windows Credential Manager and the Linux Secret Service.      *)
(* Several callers use the store at once.  On Linux they share one probe,  *)
(* and every request has a watchdog thread that cancels it at a deadline.  *)
(*                                                                         *)
(* A text is a sequence of characters: the '/' that Windows joins names    *)
(* by, the case it does not look at and the NUL that ends a C string       *)
(* decide which entry a request reaches.                                   *)
(***************************************************************************)
EXTENDS Naturals, Sequences, FiniteSetsExt

CONSTANTS
    Callers,        \* threads and processes that use the store
    Requests,       \* what they may ask: [op, service, account, secret]
    NoOne,          \* nobody holds the probe's lock
    NoEntry,        \* the store has nothing under a key
    Timeout,        \* CALL_TIMEOUT_SECONDS, in ticks
    Lower,          \* upper-case characters that requests use, with their lower case
    MaxBlob,        \* MAX_BLOB_BYTES, in characters
    MaxUser,        \* CRED_MAX_USERNAME_LENGTH, in characters
    MaxCalls        \* bound: calls made in all

Ops == {"store", "load", "remove"}

Nul == "nul"
Slash == "/"
NotUtf8 == "bad"    \* stands for bytes that are not UTF-8

ASSUME KeychainAssumption ==
    /\ Timeout \in Nat \ {0} /\ MaxBlob \in Nat /\ MaxUser \in Nat /\ MaxCalls \in Nat
    /\ DOMAIN Lower \intersect {Nul, Slash, NotUtf8} = {}
    /\ \A upper \in DOMAIN Lower : Lower[upper] \in STRING \ {Nul, Slash, NotUtf8}
    /\ NoOne \notin Callers
    /\ Requests # {} /\ Requests \subseteq [op : Ops, service : Seq(STRING), account : Seq(STRING),
                                           secret : Seq(STRING)]
    /\ \A r \in Requests : r.secret # NoEntry

VARIABLES
    platform,       \* which of the three back ends is compiled in
    reachable,      \* is there a store: library and bus, default keychain, credential set
    store,          \* the operating system's store: key -> text
    probe,          \* KeychainAvailable's static probed and available
    lock,           \* who holds KeychainAvailable's mutex
    calls,          \* how many calls were made (the bound's counter)
    call,           \* each caller's call, see Idle
    deadline,       \* each caller's Deadline object
    written         \* history: what was last put under a (service, account)

vars == <<platform, reachable, store, probe, lock, calls, call, deadline, written>>

Has(text, char) == \E i \in DOMAIN text : text[i] = char

\* What a C interface reads of a text: the characters before the first NUL.
CString(text) ==
    IF Has(text, Nul)
    THEN SubSeq(text, 1, Min({i \in DOMAIN text : text[i] = Nul}) - 1)
    ELSE text

\* External: a text as the Credential Manager compares it, without regard to case.
Folded(text) ==
    [i \in DOMAIN text |-> IF text[i] \in DOMAIN Lower THEN Lower[text[i]] ELSE text[i]]

NamesOf(r) == [service |-> r.service, account |-> r.account]
Names == {NamesOf(r) : r \in Requests}

\* The names every platform takes.  ValidUtf8 accepts a NUL, which is UTF-8.
Mut_NoSlashRule(n) ==
    n.service # <<>> /\ ~Has(n.service, NotUtf8) /\ ~Has(n.account, NotUtf8)
NamesOk(n) ==
    /\ n.service # <<>>
    /\ ~Has(n.service, NotUtf8) /\ ~Has(n.account, NotUtf8)
    /\ ~Has(n.service, Slash)

SecretOk(secret) == ~Has(secret, Nul)

\* The key of an entry: macOS takes both names with their lengths, Windows one C string joined by
\* '/' in which case does not matter, the Secret Service two C strings.
Mut_NoAccount(p, n) ==
    CASE p = "macos"   -> <<n.service>>
      [] p = "windows" -> CString(Folded(n.service) \o <<Slash>> \o Folded(n.account))
      [] p = "linux"   -> <<CString(n.service), CString(n.account)>>
KeyOn(p, n) ==
    CASE p = "macos"   -> <<n.service, n.account>>
      [] p = "windows" -> CString(Folded(n.service) \o <<Slash>> \o Folded(n.account))
      [] p = "linux"   -> <<CString(n.service), CString(n.account)>>
Key(n) == KeyOn(platform, n)

\* What the store keeps of a secret: libsecret's password is a C string.
Kept(secret) == IF platform = "linux" THEN CString(secret) ELSE secret

-----------------------------------------------------------------------------
\* A caller's call: where it is, what it asked, how it ended, the caller's own string, the time it
\* took; and for the properties: did the store change, did another store of the same entry come
\* between update and add, what the entry held when it was read.
Idle == [at |-> "idle", req |-> CHOOSE r \in Requests : TRUE, result |-> "none",
         out |-> <<>>, spent |-> 0, applied |-> FALSE, raced |-> FALSE, seen |-> <<>>]

\* A Deadline with its watchdog in wait_for, and one that is destroyed.
Armed == [watchdog |-> "waiting", left |-> Timeout, finished |-> FALSE, cancelled |-> FALSE,
          live |-> TRUE]
Destroyed == [watchdog |-> "ended", left |-> 0, finished |-> TRUE, cancelled |-> FALSE,
              live |-> FALSE]

Init ==
    /\ platform \in {"macos", "windows", "linux"}
    /\ reachable \in BOOLEAN
    /\ store = [k \in {KeyOn(platform, n) : n \in Names} |-> NoEntry]
    /\ probe = [probed |-> FALSE, available |-> FALSE]
    /\ lock = NoOne
    /\ calls = 0
    /\ call = [c \in Callers |-> Idle]
    /\ deadline = [c \in Callers |-> Destroyed]
    /\ written = [n \in Names |-> NoEntry]

NameOf(c) == NamesOf(call[c].req)

\* The caller's call moves on to `place`.
Goes(c, place) == call' = [call EXCEPT ![c].at = place]

\* Every other caller between update and add of the entry `c` stores has lost the race for it.
Racing(c) ==
    [d \in Callers |-> IF d # c /\ call[d].at = "add" /\ NameOf(d) = NameOf(c)
                       THEN [call[d] EXCEPT !.raced = TRUE] ELSE call[d]]

\* The store does what it was asked, and the call goes on to `next` with the result.
Serve(c, next) ==
    LET r == call[c].req
        n == NameOf(c)
        entry == store[Key(n)]
    IN
    \/ /\ r.op = "store"
       /\ store' = [store EXCEPT ![Key(n)] = Kept(r.secret)]
       /\ written' = [written EXCEPT ![n] = r.secret]
       /\ call' = [Racing(c) EXCEPT ![c].at = next, ![c].result = "done", ![c].applied = TRUE]
    \/ /\ r.op = "load"
       /\ IF entry = NoEntry
          THEN call' = [call EXCEPT ![c].at = next, ![c].result = "absent"]
          ELSE call' = [call EXCEPT ![c].at = next, ![c].result = "found", ![c].out = entry,
                                    ![c].seen = written[n]]
       /\ UNCHANGED <<store, written>>
    \/ /\ r.op = "remove"
       /\ store' = [store EXCEPT ![Key(n)] = NoEntry]
       /\ written' = [written EXCEPT ![n] = NoEntry]
       /\ call' = [call EXCEPT ![c].at = next, ![c].result = "done", ![c].applied = TRUE]

\* The store reports an error (locked, denied, no session) and changes nothing.
Refuse(c, next) ==
    /\ call' = [call EXCEPT ![c].at = next, ![c].result = "failed"]
    /\ UNCHANGED <<store, written>>

-----------------------------------------------------------------------------
(* Entry: KeychainStore, KeychainLoad, KeychainRemove up to the first call out *)

\* KeychainLoad wipes the caller's string before anything else.
Mut_NotWiped(c, r) == call[c].out
Wiped(c, r) == IF r.op = "load" THEN <<>> ELSE call[c].out

Entered(c, r, place, result) ==
    /\ calls' = calls + 1
    /\ call' = [call EXCEPT ![c] = [Idle EXCEPT !.at = place, !.req = r, !.result = result,
                                                !.out = Wiped(c, r)]]

\* What is refused before any store is asked; Windows also limits the sizes of what it stores.
Acceptable(r) ==
    /\ NamesOk(NamesOf(r))
    /\ r.op = "store" =>
          /\ SecretOk(r.secret)
          /\ platform = "windows" => Len(r.secret) <= MaxBlob /\ Len(r.account) <= MaxUser

MayEnter(c) ==
    /\ call[c].at = "idle"
    /\ calls < MaxCalls

EnterRefused(c, r) ==
    /\ MayEnter(c)
    /\ ~Acceptable(r)
    /\ Entered(c, r, "idle", "refused")
    /\ UNCHANGED <<platform, reachable, store, probe, lock, deadline, written>>

\* Every Linux call asks KeychainAvailable, which takes its mutex.
EnterLinux(c, r) ==
    /\ MayEnter(c)
    /\ platform = "linux" /\ Acceptable(r)
    /\ Entered(c, r, "lock", "none")
    /\ UNCHANGED <<platform, reachable, store, probe, lock, deadline, written>>

\* On macOS only KeychainStore asks KeychainAvailable, and its probe may fail (a locked keychain).
Mut_AddsAtOnce(c, r) ==
    /\ MayEnter(c)
    /\ platform = "macos" /\ r.op = "store" /\ Acceptable(r)
    /\ \/ reachable /\ Entered(c, r, "add", "none")
       \/ Entered(c, r, "idle", "unavailable")
    /\ UNCHANGED <<platform, reachable, store, probe, lock, deadline, written>>
EnterMacStore(c, r) ==
    /\ MayEnter(c)
    /\ platform = "macos" /\ r.op = "store" /\ Acceptable(r)
    /\ \/ reachable /\ Entered(c, r, "update", "none")
       \/ Entered(c, r, "idle", "unavailable")
    /\ UNCHANGED <<platform, reachable, store, probe, lock, deadline, written>>

\* macOS reads and removes, and everything on Windows, goes straight to the system.
EnterDirect(c, r) ==
    /\ MayEnter(c)
    /\ platform = "windows" \/ (platform = "macos" /\ r.op # "store")
    /\ Acceptable(r)
    /\ Entered(c, r, "ask", "none")
    /\ UNCHANGED <<platform, reachable, store, probe, lock, deadline, written>>

-----------------------------------------------------------------------------
(* macOS and Windows *)

\* SecItemUpdate: replaces what is there, finds nothing to replace, or fails.
SecItemUpdate(c) ==
    /\ call[c].at = "update"
    /\ \/ store[Key(NameOf(c))] # NoEntry /\ Serve(c, "idle")
       \/ /\ store[Key(NameOf(c))] = NoEntry
          /\ Goes(c, "add")
          /\ UNCHANGED <<store, written>>
       \/ Refuse(c, "idle")
    /\ UNCHANGED <<platform, reachable, calls, probe, lock, deadline>>

\* SecItemAdd after an update that found nothing: another caller may have added the item since.
SecItemAdd(c) ==
    /\ call[c].at = "add"
    /\ \/ store[Key(NameOf(c))] = NoEntry /\ Serve(c, "idle")
       \/ /\ store[Key(NameOf(c))] # NoEntry
          /\ call' = [call EXCEPT ![c].at = "idle", ![c].result = "duplicate"]
          /\ UNCHANGED <<store, written>>
       \/ Refuse(c, "idle")
    /\ UNCHANGED <<platform, reachable, calls, probe, lock, deadline>>

\* SecItemCopyMatching, SecItemDelete, CredWriteW, CredReadW, CredDeleteW: one call, done or failed.
SystemCall(c) ==
    /\ platform # "linux"
    /\ call[c].at = "ask"
    /\ (reachable /\ Serve(c, "idle")) \/ Refuse(c, "idle")
    /\ UNCHANGED <<platform, reachable, calls, probe, lock, deadline>>

-----------------------------------------------------------------------------
(* Linux: the probe, the request and its watchdog *)

\* A new Deadline, then the synchronous libsecret call.
Asks(c, place) ==
    /\ Goes(c, place)
    /\ deadline' = [deadline EXCEPT ![c] = Armed]

Unavailable(c) ==
    /\ call' = [call EXCEPT ![c].at = "idle", ![c].result = "unavailable"]
    /\ UNCHANGED deadline

\* KeychainAvailable with its mutex free: the cached answer, or the probe, which keeps the mutex
\* for as long as its lookup takes.
KeychainAvailable(c) ==
    /\ call[c].at = "lock" /\ lock = NoOne
    /\ \/ probe.probed /\ probe.available /\ Asks(c, "ask") /\ UNCHANGED <<probe, lock>>
       \/ probe.probed /\ ~probe.available /\ Unavailable(c) /\ UNCHANGED <<probe, lock>>
       \/ /\ ~probe.probed /\ ~reachable
          /\ probe' = [probe EXCEPT !.probed = TRUE]
          /\ Unavailable(c)
          /\ UNCHANGED lock
       \/ /\ ~probe.probed /\ reachable
          /\ probe' = [probe EXCEPT !.probed = TRUE]
          /\ lock' = c
          /\ Asks(c, "probing")
    /\ UNCHANGED <<platform, reachable, calls, store, written>>

\* The Secret Service answers the probe's lookup: nothing there, or an error.
ProbeAnswered(c) ==
    /\ call[c].at = "probing"
    /\ \E ok \in BOOLEAN : probe' = [probe EXCEPT !.available = ok]
    /\ Goes(c, "reap")
    /\ UNCHANGED <<platform, reachable, calls, store, lock, deadline, written>>

\* The Secret Service answers a request.  A locked collection nobody unlocks shows nothing: a
\* lookup finds none and a clear has nothing to do, neither with an error ("absent"; the caller of
\* a remove is told ok, as if it had been done).
Answered(c) ==
    /\ platform = "linux" /\ call[c].at = "ask"
    /\ \/ Serve(c, "reap")
       \/ Refuse(c, "reap")
       \/ /\ call[c].req.op \in {"load", "remove"}
          /\ call' = [call EXCEPT ![c].at = "reap", ![c].result = "absent"]
          /\ UNCHANGED <<store, written>>
    /\ UNCHANGED <<platform, reachable, calls, probe, lock, deadline>>

\* A cancelled call returns with an error; the service may have done what was asked all the same.
Mut_CancelledIsDone(c) ==
    /\ deadline[c].cancelled
    /\ call[c].at \in {"probing", "ask"}
    /\ call' = [call EXCEPT ![c].at = "reap", ![c].result = "done"]
    /\ UNCHANGED <<platform, reachable, calls, store, probe, lock, deadline, written>>
CancelledReturn(c) ==
    /\ deadline[c].cancelled
    /\ \/ /\ call[c].at = "probing"
          /\ Goes(c, "reap")
          /\ UNCHANGED <<store, written>>
       \/ /\ platform = "linux" /\ call[c].at = "ask"
          /\ Refuse(c, "reap")
       \/ /\ platform = "linux" /\ call[c].at = "ask"
          /\ call[c].req.op # "load"
          /\ LET n == NameOf(c)
                 stores == call[c].req.op = "store"
             IN  /\ store' = [store EXCEPT ![Key(n)] =
                                 IF stores THEN Kept(call[c].req.secret) ELSE NoEntry]
                 /\ written' = [written EXCEPT ![n] =
                                 IF stores THEN call[c].req.secret ELSE NoEntry]
          /\ call' = [call EXCEPT ![c].at = "reap", ![c].result = "failed", ![c].applied = TRUE]
    /\ UNCHANGED <<platform, reachable, calls, probe, lock, deadline>>

\* ~Deadline: finished is set under the lock and the watchdog notified.
Finish(c) ==
    /\ call[c].at = "reap"
    /\ deadline' = [deadline EXCEPT ![c].finished = TRUE]
    /\ Goes(c, "join")
    /\ UNCHANGED <<platform, reachable, calls, store, probe, lock, written>>

\* The watchdog wakes: finished, or cancels at the deadline.
WatchdogEnds(c) ==
    /\ deadline[c].watchdog = "waiting" /\ deadline[c].finished
    /\ deadline' = [deadline EXCEPT ![c].watchdog = "ended"]
    /\ UNCHANGED <<platform, reachable, calls, store, probe, lock, call, written>>

Mut_WatchdogGivesUp(c) ==
    /\ deadline[c].watchdog = "waiting" /\ ~deadline[c].finished /\ deadline[c].left = 0
    /\ deadline' = [deadline EXCEPT ![c].watchdog = "ended"]
    /\ UNCHANGED <<platform, reachable, calls, store, probe, lock, call, written>>
WatchdogCancels(c) ==
    /\ deadline[c].watchdog = "waiting" /\ ~deadline[c].finished /\ deadline[c].left = 0
    /\ deadline' = [deadline EXCEPT ![c].watchdog = "ended", ![c].cancelled = TRUE]
    /\ UNCHANGED <<platform, reachable, calls, store, probe, lock, call, written>>

Unref(c) == 
    deadline' = [deadline EXCEPT ![c] = [Destroyed EXCEPT !.watchdog = deadline[c].watchdog]]

\* The probe is over without a store, and stays so for the process.
Mut_ProbeFailedForgotten(c) ==
    /\ ~probe.available
    /\ call' = [call EXCEPT ![c].at = "idle", ![c].result = "unavailable"]
    /\ Unref(c)
    /\ probe' = [probe EXCEPT !.probed = FALSE]
ProbeFailed(c) ==
    /\ ~probe.available
    /\ call' = [call EXCEPT ![c].at = "idle", ![c].result = "unavailable"]
    /\ Unref(c)
    /\ UNCHANGED probe

\* What follows the destructor: the probe unlocks and the caller's own request begins, or the call
\* returns.
Joined(c) ==
    \/ /\ lock = c
       /\ lock' = NoOne
       /\ ProbeFailed(c) \/ (probe.available /\ Asks(c, "ask") /\ UNCHANGED probe)
    \/ /\ lock # c
       /\ Goes(c, "idle")
       /\ Unref(c)
       /\ UNCHANGED <<probe, lock>>

\* ~Deadline goes on: join waits for the watchdog, then the cancellable is unreferenced.
Mut_JoinDoesNotWait(c) ==
    /\ call[c].at = "join"
    /\ Joined(c)
    /\ UNCHANGED <<platform, reachable, calls, store, written>>
Join(c) ==
    /\ call[c].at = "join" /\ deadline[c].watchdog = "ended"
    /\ Joined(c)
    /\ UNCHANGED <<platform, reachable, calls, store, written>>

\* A caller that only waits: for the probe's mutex or for an answer not yet due to be cancelled.
Waits(c) ==
    \/ call[c].at = "idle"
    \/ call[c].at = "lock" /\ lock # NoOne
    \/ call[c].at \in {"probing", "ask"} /\ ~deadline[c].cancelled /\ deadline[c].left > 0

\* Time passes while everybody waits: what the program computes takes none.
Tick ==
    /\ platform = "linux"
    /\ \A c \in Callers : Waits(c)
    /\ \E c \in Callers : call[c].at # "idle"
    /\ call' = [c \in Callers |-> IF call[c].at = "idle" THEN call[c]
                                  ELSE [call[c] EXCEPT !.spent = @ + 1]]
    /\ deadline' = [c \in Callers |-> IF call[c].at \in {"probing", "ask"}
                                      THEN [deadline[c] EXCEPT !.left = @ - 1] ELSE deadline[c]]
    /\ UNCHANGED <<platform, reachable, calls, store, probe, lock, written>>

-----------------------------------------------------------------------------
Enter(c) ==
    \E r \in Requests :
        EnterRefused(c, r) \/ EnterLinux(c, r) \/ EnterMacStore(c, r) \/ EnterDirect(c, r)

\* The steps that are the module's own or that libsecret promises, once they can be taken.
Progress(c) ==
    KeychainAvailable(c) \/ CancelledReturn(c) \/ Finish(c) \/ Join(c)
        \/ WatchdogEnds(c) \/ WatchdogCancels(c)

\* The steps the store takes in its own time.
Outside(c) ==
    SecItemUpdate(c) \/ SecItemAdd(c) \/ SystemCall(c) \/ ProbeAnswered(c) \/ Answered(c)

\* All calls are made and have returned.
Finished ==
    /\ calls = MaxCalls
    /\ \A c \in Callers : call[c].at = "idle"
    /\ UNCHANGED vars

Next ==
    \/ \E c \in Callers : Enter(c) \/ Progress(c) \/ Outside(c)
    \/ Tick
    \/ Finished

Fairness ==
    /\ WF_vars(Tick)
    /\ \A c \in Callers : WF_vars(Progress(c))

Spec == Init /\ [][Next]_vars
FairSpec == Spec /\ Fairness

-----------------------------------------------------------------------------
(* Properties *)

\* Whatever callers store, replace and remove, at once and with requests cut off half-way, each
\* (service, account) has an entry of its own, which holds exactly the secret last stored under
\* these names: "two byte strings that a platform would read as one must never share an entry"
\* (keychain.cpp), and none cuts a secret short.
EntryPerName ==
    \A n \in Names : NamesOk(n) => store[Key(n)] = written[n]

\* What a load leaves with its caller is what was stored under these names when it was read, and
\* nothing when it found nothing, was refused or failed: never a secret of an earlier call.
LoadHandsOut(c) == call[c].req.op = "load" => call[c].out = call[c].seen

\* A store that reports ok is in the operating system's store and a remove that does has removed
\* what was there, even when the answer raced with the watchdog, except that a Secret Service with
\* a locked collection may have nothing to remove; a call refused or unavailable changed nothing.
OkMeansDone(c) ==
    /\ call[c].req.op # "load" /\ call[c].result = "done" => call[c].applied
    /\ call[c].req.op # "load" /\ call[c].result = "absent" =>
          platform = "linux" /\ call[c].req.op = "remove"
    /\ call[c].result \in {"refused", "unavailable"} => ~call[c].applied

\* KeychainStore replaces what is there: on macOS it stumbles over an existing item only when
\* another store of the same entry came between its update and its add.
DuplicateOnlyByRace(c) == call[c].result = "duplicate" => call[c].raced

\* What a call that returned tells its caller is what happened to the entry: a load's secret, the
\* ok of a store or a remove and a duplicate item, whatever other callers and the watchdog did
\* meanwhile.
ReportIsTrue ==
    \A c \in Callers : call[c].at = "idle" =>
        LoadHandsOut(c) /\ OkMeansDone(c) /\ DuplicateOnlyByRace(c)

\* A watchdog that may still cancel has a cancellable that is not yet unreferenced.
WatchdogOutlived ==
    \A c \in Callers : deadline[c].watchdog = "waiting" => deadline[c].live

\* All callers share the one probe: nobody learns that there is no store later than one deadline
\* after asking, and no call takes longer than two, however many queue for the probe.
TwoDeadlinesAtMost ==
    \A c \in Callers :
        /\ call[c].spent <= 2 * Timeout
        /\ call[c].result = "unavailable" => call[c].spent <= Timeout

\* On Linux every call returns, even from a Secret Service that never answers.
CallEnds ==
    \A c \in Callers :
        (platform = "linux" /\ call[c].at # "idle") ~> (call[c].at = "idle")
=============================================================================
